---------------------------- MODULE Spec2Model ----------------------------
(***************************************************************************)
(* A model of the substation annotation tool's server core:                *)
(*   - the tile route   app/api/tiles/[...all]/route.ts                    *)
(*   - the JSON document store  app/lib/data.ts  and its two API routes    *)
(*     app/api/substations/route.ts, app/api/polygons/route.ts             *)
(*   - the client handlers of AnnotateTab.tsx that run GET -> modify ->    *)
(*     POST cycles against the store.                                      *)
(*                                                                         *)
(* Text is modelled as sequences of one-character strings, JavaScript      *)
(* numbers as exact integers kept in two limbs (so that values beyond      *)
(* 2^31 are representable), file contents as sequences of JSON tokens.     *)
(*                                                                         *)
(* Seven specifications share the definitions:                             *)
(*   Spec        callers send GET and POST requests straight to the routes *)
(*   UiSpec      two browser clients run the AnnotateTab handlers          *)
(*   DialogSpec  one browser client, over current and older collections    *)
(*   QueueSpec   the Annotate and Complete tabs load their substation lists*)
(*   LifeSpec    a substation is completed and reopened                    *)
(*   SharedSpec  the store and the tile route serve requests side by side  *)
(*   TileSpec    requests to the tile route                                *)
(***************************************************************************)
EXTENDS Integers, Sequences, FiniteSets, TLC

VARIABLES
    tileFs,     \* the tile directory tree: file path -> bytes
    tile,       \* the tile route's last request and its answer
    dataDir,    \* whether app/data exists
    file,       \* the two backing documents: exists, bytes
    req,        \* the API request each caller has in flight on the server
    hist,       \* per collection: history needed to state the store's contract
    used,       \* how many write requests or cycles, and how many I/O faults, so far
    ui          \* per client: the tab's state and handler position

vars == <<tileFs, tile, dataDir, file, req, hist, used, ui>>
tileVars == <<tileFs, tile>>
storeVars == <<dataDir, file, req, hist, used>>

---------------------------------------------------------------------------
(* JavaScript numbers.  n = q * 2^16 + r with 0 <= r < 2^16, or NaN.       *)

NumBase == 2 ^ 16

NaN == [nan |-> TRUE, q |-> 0, r |-> 0]

NumNorm(q, r) == [nan |-> FALSE, q |-> q + (r \div NumBase), r |-> r % NumBase]

Num(n) == NumNorm(0, n)

NumSub(a, b) == IF a.nan \/ b.nan THEN NaN ELSE NumNorm(a.q - b.q, a.r - b.r)

NumAdd(a, b) == IF a.nan \/ b.nan THEN NaN ELSE NumNorm(a.q + b.q, a.r + b.r)

NumNeg(a) == NumSub(Num(0), a)

NumIsNeg(a) == (~a.nan) /\ a.q < 0

NumLess(a, b) == (~a.nan) /\ (~b.nan) /\ (a.q < b.q \/ (a.q = b.q /\ a.r < b.r))

NumMul10Add(a, d) == NumNorm(a.q * 10, a.r * 10 + d)

NumDiv10(a) == [nan |-> FALSE, q |-> a.q \div 10,
                r |-> ((a.q % 10) * NumBase + a.r) \div 10]

NumMod10(a) == ((a.q % 10) * NumBase + a.r) % 10

\* 2^k as a number, 0 <= k <= 40 (the mathematical power, no wrap).
Pow2Num(k) == IF k < 16 THEN Num(2 ^ k) ELSE [nan |-> FALSE, q |-> 2 ^ (k - 16), r |-> 0]

---------------------------------------------------------------------------
(* Text.                                                                   *)

Digit == <<"0", "1", "2", "3", "4", "5", "6", "7", "8", "9">>

IsDigit(c) == \E d \in 1..10 : Digit[d] = c

DigitVal(c) == (CHOOSE d \in 1..10 : Digit[d] = c) - 1

RECURSIVE ParseDigits(_, _)
ParseDigits(s, acc) ==
    IF s = <<>> \/ ~IsDigit(Head(s)) THEN acc
    ELSE ParseDigits(Tail(s), NumMul10Add(acc, DigitVal(Head(s))))

\* parseInt(s, 10): optional sign, then the longest prefix of decimal digits;
\* NaN when there is no digit.  (Leading white space does not occur in a
\* path segment of the request sets used here.)
parseInt(s) ==
    LET neg  == s # <<>> /\ Head(s) = "-"
        body == IF s # <<>> /\ Head(s) \in {"-", "+"} THEN Tail(s) ELSE s
    IN  IF body = <<>> \/ ~IsDigit(Head(body)) THEN NaN
        ELSE IF neg THEN NumNeg(ParseDigits(body, Num(0)))
        ELSE ParseDigits(body, Num(0))

RECURSIVE NumDigits(_)
NumDigits(a) ==
    IF a.q = 0 /\ a.r < 10 THEN <<Digit[a.r + 1]>>
    ELSE NumDigits(NumDiv10(a)) \o <<Digit[NumMod10(a) + 1]>>

\* `${n}`: Number::toString for an integer of magnitude below 10^21.
NumToString(a) ==
    IF a.nan THEN <<"N", "a", "N">>
    ELSE IF NumIsNeg(a) THEN <<"-">> \o NumDigits(NumNeg(a))
    ELSE NumDigits(a)

\* The greatest index of character c in s, 0 when absent.
LastIndexOf(s, c) ==
    LET I == {i \in 1..Len(s) : s[i] = c}
    IN  IF I = {} THEN 0 ELSE CHOOSE i \in I : \A j \in I : j <= i

\* Split s at every "/".
RECURSIVE SplitSlash(_)
SplitSlash(s) ==
    LET k == LastIndexOf(s, "/")
    IN  IF k = 0 THEN <<s>>
        ELSE SplitSlash(SubSeq(s, 1, k - 1)) \o <<SubSeq(s, k + 1, Len(s))>>

\* path.parse(p).name: the last path component without its extension.  A
\* leading dot starts no extension, and ".." has none.
PathParseName(p) ==
    LET parts == SelectSeq(SplitSlash(p), LAMBDA c : c # <<>>)
        base  == IF parts = <<>> THEN <<>> ELSE parts[Len(parts)]
        dot   == LastIndexOf(base, ".")
    IN  IF dot <= 1 \/ base = <<".", ".">> THEN base
        ELSE SubSeq(base, 1, dot - 1)

---------------------------------------------------------------------------
(* Paths: a sequence of components below the file-system root.             *)

\* process.cwd(): WORKDIR of the image.
Cwd == << <<"a", "p", "p">> >>

DotPng == <<".", "p", "n", "g">>

\* route.ts line 6
TILE_BASE_PATH == Cwd \o << <<"p", "u", "b">>, <<"t", "i", "l", "e", "s">> >>

\* Normalisation of an absolute path given as components: "" and "." are
\* dropped, ".." removes the component before it (and stays at the root).
RECURSIVE NormalizeParts(_, _)
NormalizeParts(done, rest) ==
    IF rest = <<>> THEN done
    ELSE LET c == Head(rest)
         IN  IF c = <<>> \/ c = <<".">> THEN NormalizeParts(done, Tail(rest))
             ELSE IF c = <<".", ".">>
                  THEN NormalizeParts(IF done = <<>> THEN <<>>
                                      ELSE SubSeq(done, 1, Len(done) - 1), Tail(rest))
             ELSE NormalizeParts(Append(done, c), Tail(rest))

RECURSIVE FlattenSegs(_)
FlattenSegs(segs) ==
    IF segs = <<>> THEN <<>> ELSE SplitSlash(Head(segs)) \o FlattenSegs(Tail(segs))

\* path.join(base, ...segs): join with "/" and normalise.
PathJoin(base, segs) == NormalizeParts(<<>>, base \o FlattenSegs(segs))

IsPrefix(p, q) == Len(p) <= Len(q) /\ SubSeq(q, 1, Len(p)) = p

---------------------------------------------------------------------------
(* The tile route: GET /api/tiles/[...all]                                 *)

NoPath == <<>>

Str(n) == NumToString(Num(n))

Sub1 == <<"s", "u", "b", "1">>

DotDot == <<".", ".">>

\* The path of a stored tile of dataset id.
TilePath(id, z, x, row) ==
    TILE_BASE_PATH \o <<id, Str(z), Str(x), NumToString(row) \o DotPng>>

\* The tile pyramid provisioned out of band (TMS rows).  At zoom 3 column 2
\* only rows 0 and 7 exist: the pyramid is sparse.
TileTree ==
    LET P == { TilePath(Sub1, 0, 0, Num(0)),
               TilePath(Sub1, 3, 2, Num(0)),
               TilePath(Sub1, 3, 2, Num(7)),
               TilePath(Sub1, 30, 0, NumSub(Pow2Num(30), Num(1))),
               TilePath(Sub1, 31, 0, NumSub(Pow2Num(31), Num(1))) }
    IN  [p \in P |-> <<"png", p>>]

\* route.ts line 8
CONVERT_Y_TO_TMS == TRUE

\* The shift count of 1 << z: ToUint32(z) & 31 (NaN counts as 0).
ShiftCount(z) == IF z.nan THEN 0 ELSE z.r % 32

\* 1 << z as JavaScript computes it: a signed 32-bit result.
Shl1(z) ==
    LET c == ShiftCount(z)
    IN  IF c = 31 THEN NumNeg(Pow2Num(31)) ELSE Pow2Num(c)

\* (1 << z) - 1 - y, with y added instead of subtracted.
TmsFlipPlusY(y, z) == NumAdd(NumSub(Shl1(z), Num(1)), y)

\* route.ts line 38: (1 << z) - 1 - y
TmsFlip(y, z) == NumSub(NumSub(Shl1(z), Num(1)), y)

\* The segment count test with >= for !==.
SegmentCountAtLeast(segs) == Len(segs) >= 4

\* route.ts line 18: pathSegments.length !== 4 is the rejection.
SegmentCountOk(segs) == Len(segs) = 4

\* PrivateTileLayer.tsx line 22: the key template of the object store, as
\* text; a placeholder is one character of it.
UrlTemplate ==
    <<"frontend", "/", "tiles", "/", "{full_id}", "/", "{z}", "/", "{x}", "/", "{y}">>
    \o DotPng

\* s.replace(ph, text) with a string pattern: the first occurrence only.
\* (None of the texts substituted here holds a "$" replacement pattern.)
ReplaceFirst(s, ph, text) ==
    LET I == {i \in 1..Len(s) : s[i] = ph}
    IN  IF I = {} THEN s
        ELSE LET k == CHOOSE i \in I : \A j \in I : i <= j
             IN  SubSeq(s, 1, k - 1) \o text \o SubSeq(s, k + 1, Len(s))

\* PrivateTileLayer.tsx lines 52-60: the object key createTile asks for.
createTile(urlTemplate, fullId, coords) ==
    LET tmsY == NumSub(NumSub(Shl1(coords.z), Num(1)), coords.y)
        k1   == ReplaceFirst(urlTemplate, "{full_id}", fullId)
        k2   == ReplaceFirst(k1, "{z}", NumToString(coords.z))
        k3   == ReplaceFirst(k2, "{x}", NumToString(coords.x))
    IN  ReplaceFirst(k3, "{y}", NumToString(tmsY))

\* fs.readFileSync returning an empty buffer for a file that holds bytes.
ReadFileSyncNoData(fs, path, fault) ==
    IF path \in DOMAIN fs
    THEN IF fault THEN [ok |-> FALSE, code |-> "EACCES", data |-> <<>>]
         ELSE [ok |-> TRUE, code |-> "none", data |-> <<>>]
    ELSE IF \E f \in DOMAIN fs : IsPrefix(path, f)
         THEN [ok |-> FALSE, code |-> "EISDIR", data |-> <<>>]
         ELSE [ok |-> FALSE, code |-> "ENOENT", data |-> <<>>]

\* fs.readFileSync(path): the bytes, or the error thrown.  fault is the
\* environment's choice of an I/O failure on a file that exists.
ReadFileSync(fs, path, fault) ==
    IF path \in DOMAIN fs
    THEN IF fault THEN [ok |-> FALSE, code |-> "EACCES", data |-> <<>>]
         ELSE [ok |-> TRUE, code |-> "none", data |-> fs[path]]
    ELSE IF \E f \in DOMAIN fs : IsPrefix(path, f)
         THEN [ok |-> FALSE, code |-> "EISDIR", data |-> <<>>]
         ELSE [ok |-> FALSE, code |-> "ENOENT", data |-> <<>>]

TileIdle ==
    [pc |-> "idle", segs |-> <<>>, status |-> 0, ctype |-> "none", body |-> <<>>,
     read |-> NoPath, code |-> "none", z |-> NaN, y |-> NaN, yToUse |-> NaN]

\* The answer of GET to the request with these path segments.
TileAnswer(fs, segs, fault) ==
    IF ~SegmentCountOk(segs)
    THEN [TileIdle EXCEPT !.pc = "done", !.segs = segs, !.status = 400,
                          !.ctype = "text/plain", !.body = <<"Invalid tile URL format">>]
    ELSE
    LET fullId == segs[1]
        zStr   == segs[2]
        xStr   == segs[3]
        yPng   == segs[4]
        yStr   == PathParseName(yPng)
        z      == parseInt(zStr)
        y      == parseInt(yStr)
        yToUse == IF CONVERT_Y_TO_TMS THEN TmsFlip(y, z) ELSE y
        finalFilePath ==
            PathJoin(TILE_BASE_PATH, <<fullId, zStr, xStr, NumToString(yToUse) \o DotPng>>)
        rd     == ReadFileSync(fs, finalFilePath, fault)
        seen   == [TileIdle EXCEPT !.pc = "done", !.segs = segs, !.read = finalFilePath,
                                   !.code = rd.code, !.z = z, !.y = y, !.yToUse = yToUse]
    IN  IF rd.ok
        THEN [seen EXCEPT !.status = 200, !.ctype = "image/png", !.body = rd.data]
        ELSE [seen EXCEPT !.status = 400, !.ctype = "text/plain",
                          !.body = <<"Tile not found on server">>]

\* The request sets of the tile specification.
TileIds == {Sub1, DotDot}

ZSegs == {Str(0), Str(3), Str(30), Str(31), Str(32), <<"0", "3">>, <<"a">>, <<"-", "1">>}

XSegs == {Str(0), Str(2), <<"a">>}

YSegs == {Str(0) \o DotPng, Str(7) \o DotPng, Str(8) \o DotPng,
          <<"7", "a">> \o DotPng, <<"7", ".", "5">> \o DotPng,
          <<"-", "1">> \o DotPng, <<"a">> \o DotPng, DotPng, Str(7)}

TileRequests ==
    {<<i, z, x, y>> : i \in TileIds, z \in ZSegs, x \in XSegs, y \in YSegs}
    \cup {<<i, z, y>> : i \in TileIds, z \in ZSegs, y \in YSegs}
    \cup {<<i, z, x, y, y>> : i \in TileIds, z \in {Str(3)}, x \in XSegs, y \in YSegs}
    \cup {<<>>, <<Sub1>>}

TileInit ==
    /\ tileFs = TileTree
    /\ tile = TileIdle

\* route.ts GET: the whole handler (it is synchronous).
TileGET ==
    /\ tile.pc = "idle"
    /\ \E segs \in TileRequests, fault \in BOOLEAN :
          tile' = TileAnswer(tileFs, segs, fault)
    /\ UNCHANGED <<tileFs, storeVars, ui>>

\* The map client has the answer and may send the next request.
TileReturn ==
    /\ tile.pc = "done"
    /\ tile' = TileIdle
    /\ UNCHANGED <<tileFs, storeVars, ui>>

---------------------------------------------------------------------------
(* JSON text: a sequence of tokens.  An object is one token holding its    *)
(* members as <<key, value>> pairs in key order; members whose value is    *)
(* undefined are not written.                                              *)

Null == "null"

Undefined == "undefined"

FieldOrder ==
    <<"id", "full_id", "name", "substation_type", "substation_uuid", "label",
      "geometry", "created_at", "completed", "tile_url_template",
      "substation_full_id", "from_osm", "additional_info", "annotation_by",
      "message">>

IsUndefined(k, r) ==
    /\ k \in {"full_id", "name", "substation_type", "tile_url_template",
              "substation_full_id", "additional_info", "annotation_by"}
    /\ r[k] = Undefined

EncodeRec(r) ==
    LET keys == SelectSeq(FieldOrder, LAMBDA k : k \in DOMAIN r /\ ~IsUndefined(k, r))
    IN  [i \in 1..Len(keys) |-> <<keys[i], r[keys[i]]>>]

DecodeRec(kv) ==
    [k \in {kv[i][1] : i \in DOMAIN kv} |->
        kv[CHOOSE i \in DOMAIN kv :
              kv[i][1] = k /\ \A j \in DOMAIN kv : j > i => kv[j][1] # k][2]]

LB == [t |-> "["]

RB == [t |-> "]"]

Comma == [t |-> ","]

Nul == [t |-> "nul"]

ObjTok(r) == [t |-> "obj", kv |-> EncodeRec(r)]

JsonArray(items) == [kind |-> "array", items |-> items]

JsonObject(r) == [kind |-> "object", items |-> <<r>>]

RECURSIVE JoinRecs(_)
JoinRecs(items) ==
    IF items = <<>> THEN <<>>
    ELSE IF Len(items) = 1 THEN <<ObjTok(items[1])>>
    ELSE <<ObjTok(items[1]), Comma>> \o JoinRecs(Tail(items))

\* JSON.stringify(v)
JsonStringify(v) ==
    IF v.kind = "array" THEN <<LB>> \o JoinRecs(v.items) \o <<RB>>
    ELSE <<ObjTok(v.items[1])>>

\* JSON.parse(text): the value, or a SyntaxError (ok = FALSE).
JsonParse(text) ==
    LET n == Len(text)
        bad == [ok |-> FALSE, val |-> JsonArray(<<>>)]
    IN  IF n = 1 /\ text[1].t = "obj"
        THEN [ok |-> TRUE, val |-> JsonObject(DecodeRec(text[1].kv))]
        ELSE IF n < 2 \/ text[1] # LB \/ text[n] # RB THEN bad
        ELSE IF n = 2 THEN [ok |-> TRUE, val |-> JsonArray(<<>>)]
        ELSE IF n % 2 = 0 THEN bad
        ELSE IF \A i \in 2..(n - 1) :
                   IF i % 2 = 0 THEN text[i].t = "obj" ELSE text[i] = Comma
        THEN [ok |-> TRUE,
              val |-> JsonArray([i \in 1..((n - 1) \div 2) |-> DecodeRec(text[2 * i].kv)])]
        ELSE bad

---------------------------------------------------------------------------
(* The document store: app/lib/data.ts and the two collection routes.      *)

Colls == {"substations", "polygons"}

\* The number of POST requests (of the API's direct callers) or of
\* GET -> modify -> POST cycles (of the browser clients) in a behaviour.
MaxPosts == 2

\* The number of I/O faults (failing fs.readFile or fs.writeFile calls) in a
\* behaviour.
MaxFaults == 1

\* The number of tokens one write call of fs.writeFile's loop puts into the
\* file (the loop writes a long document in pieces).
WriteChunk == 4

Clients == {"c1", "c2"}

\* A record id: its prefix, who generated it, and a serial number.
NullId == <<"null", "-", 0>>

\* NextResponse.json({ message: ... }, { status: 500 }) and the 200 of POST.
MessageBody(m) == <<[t |-> "obj", kv |-> << <<"message", m>> >>]>>

\* A file that does not exist.
NoFile == [exists |-> FALSE, bytes |-> <<>>]

NoValue == [some |-> FALSE, val |-> JsonArray(<<>>)]

Some(v) == [some |-> TRUE, val |-> v]

ReqIdle ==
    [pc |-> "idle", method |-> "none", coll |-> "polygons", body |-> JsonArray(<<>>),
     data |-> <<>>, off |-> 0, solo |-> FALSE, status |-> 0, ret |-> JsonArray(<<>>),
     out |-> <<>>, code |-> "none", dir0 |-> FALSE, exp |-> NoValue]

\* A catch block that hides the failure: status 200 with an empty array.
AnswerEmptyArray(r, code) ==
    [r EXCEPT !.pc = "done", !.status = 200, !.code = code,
              !.ret = JsonArray(<<>>), !.out = JsonStringify(JsonArray(<<>>))]

\* The route's catch block: status 500 with a message body.
Answer500(r, code) ==
    [r EXCEPT !.pc = "done", !.status = 500, !.code = code,
              !.out = MessageBody("Error")]

\* The requests whose fs.writeFile holds the collection's file open.
ActiveWriters(k) ==
    {c \in Clients : req[c].method = "POST" /\ req[c].coll = k /\ req[c].pc = "write"}

\* The value the last write left for a read that starts now: known when no
\* write is in flight and the last write ran alone and succeeded.
Expected(k) == IF ActiveWriters(k) = {} THEN hist[k].last ELSE NoValue

\* The bytes of a file after chunk is written at offset off: a write beyond
\* the end leaves a hole of zero bytes.
Overlay(bytes, off, chunk) ==
    LET n == IF Len(bytes) > off + Len(chunk) THEN Len(bytes) ELSE off + Len(chunk)
    IN  [i \in 1..n |->
            IF i > off /\ i <= off + Len(chunk) THEN chunk[i - off]
            ELSE IF i <= Len(bytes) THEN bytes[i]
            ELSE Nul]

\* An open that creates the file when absent but keeps its bytes (flag 'r+'
\* on an existing file).
OpenNoTruncate(f) == [exists |-> TRUE, bytes |-> f.bytes]

\* data.ts lines 47, 52: fs.writeFile opens with flag 'w', which creates the
\* file when absent and truncates it.
OpenForWrite(f) == [exists |-> TRUE, bytes |-> <<>>]

\* readJsonFile answering a missing file with an error instead of [].
MissingFileAsError(r) == Answer500(r, "ENOENT")

\* data.ts lines 26-30 and the route's NextResponse.json: ENOENT is [].
MissingFileAsEmpty(r) ==
    [r EXCEPT !.pc = "done", !.status = 200, !.ret = JsonArray(<<>>),
              !.out = JsonStringify(JsonArray(<<>>))]

\* A GET request arrives: the route calls getSubstations / getComponentPolygons.
GetArrive(c, k) ==
    [ReqIdle EXCEPT !.pc = "ensure", !.method = "GET", !.coll = k,
                    !.dir0 = dataDir]

\* A POST request arrives: request.json() parses the body, and a body that is
\* no JSON text makes the route answer 500 before anything is written.
PostArrive(c, k, text) ==
    LET parsed == JsonParse(text)
    IN  IF parsed.ok
        THEN [ReqIdle EXCEPT !.pc = "ensure", !.method = "POST", !.coll = k,
                             !.body = parsed.val, !.data = JsonStringify(parsed.val),
                             !.dir0 = dataDir]
        ELSE Answer500([ReqIdle EXCEPT !.method = "POST", !.coll = k], "SyntaxError")

\* ensureDataDir (data.ts lines 11-17): fs.access, and fs.mkdir when it fails.
EnsureDataDir(c) ==
    /\ req[c].pc = "ensure"
    /\ dataDir' = TRUE
    /\ req' = [req EXCEPT ![c].pc = IF req[c].method = "GET" THEN "access" ELSE "open"]
    /\ UNCHANGED <<file, hist, used, tileVars, ui>>

\* readJsonFile line 23: fs.access(filePath), which throws ENOENT when the
\* file is missing; the catch block decides the result.
GetAccess(c) ==
    /\ req[c].pc = "access"
    /\ LET k == req[c].coll
       IN  req' = [req EXCEPT ![c] =
                IF file[k].exists THEN [req[c] EXCEPT !.pc = "read"]
                ELSE MissingFileAsEmpty([req[c] EXCEPT !.code = "ENOENT"])]
    /\ UNCHANGED <<dataDir, file, hist, used, tileVars, ui>>

\* readJsonFile lines 24-25 and the route's answer: fs.readFile, JSON.parse.
GetRead(c) ==
    /\ req[c].pc = "read"
    /\ LET k      == req[c].coll
           parsed == JsonParse(file[k].bytes)
           seen   == [req[c] EXCEPT !.exp = Expected(k)]
       IN  req' = [req EXCEPT ![c] =
                IF parsed.ok
                THEN [seen EXCEPT !.pc = "done", !.status = 200, !.ret = parsed.val,
                                  !.out = JsonStringify(parsed.val)]
                ELSE Answer500(seen, "SyntaxError")]
    /\ UNCHANGED <<dataDir, file, hist, used, tileVars, ui>>

\* fs.readFile fails with an I/O error: the route answers 500.
GetReadFault(c) ==
    /\ req[c].pc = "read"
    /\ used.faults < MaxFaults
    /\ used' = [used EXCEPT !.faults = @ + 1]
    /\ req' = [req EXCEPT ![c] = Answer500(req[c], "EIO")]
    /\ UNCHANGED <<dataDir, file, hist, tileVars, ui>>

\* An open that truncates the files of both collections.
PostOpenTruncatesAll(c) ==
    /\ req[c].pc = "open"
    /\ LET k == req[c].coll
           W == ActiveWriters(k)
       IN  /\ file' = [j \in Colls |-> OpenForWrite(file[j])]
           /\ req' = [x \in Clients |->
                        IF x = c THEN [req[c] EXCEPT !.pc = "write", !.off = 0,
                                                     !.solo = (W = {})]
                        ELSE IF x \in W THEN [req[x] EXCEPT !.solo = FALSE]
                        ELSE req[x]]
           /\ hist' = [hist EXCEPT ![k] =
                        [old  |-> IF W = {} THEN file[k] ELSE hist[k].old,
                         last |-> NoValue,
                         fin  |-> hist[k].fin]]
    /\ UNCHANGED <<dataDir, used, tileVars, ui>>

\* fs.writeFile, first step: the file is opened for writing.
PostOpen(c) ==
    /\ req[c].pc = "open"
    /\ LET k == req[c].coll
           W == ActiveWriters(k)
       IN  /\ file' = [file EXCEPT ![k] = OpenForWrite(file[k])]
           /\ req' = [x \in Clients |->
                        IF x = c THEN [req[c] EXCEPT !.pc = "write", !.off = 0,
                                                     !.solo = (W = {})]
                        ELSE IF x \in W THEN [req[x] EXCEPT !.solo = FALSE]
                        ELSE req[x]]
           /\ hist' = [hist EXCEPT ![k] =
                        [old  |-> IF W = {} THEN file[k] ELSE hist[k].old,
                         last |-> NoValue,
                         fin  |-> hist[k].fin]]
    /\ UNCHANGED <<dataDir, used, tileVars, ui>>

\* fs.writeFile, the write loop: one write call puts the next piece at the
\* handle's own offset; after the last one the route answers 200.
PostWrite(c) ==
    /\ req[c].pc = "write"
    /\ LET k    == req[c].coll
           left == Len(req[c].data) - req[c].off
       IN  \E n \in {IF left > WriteChunk THEN WriteChunk ELSE left} :
             LET chunk == SubSeq(req[c].data, req[c].off + 1, req[c].off + n)
                 fin   == (n = left)
             IN  /\ file' = [file EXCEPT ![k].bytes = Overlay(@, req[c].off, chunk)]
                 /\ req' = [req EXCEPT ![c] =
                              IF fin THEN [req[c] EXCEPT !.pc = "done", !.off = @ + n,
                                                         !.status = 200,
                                                         !.out = MessageBody("saved")]
                              ELSE [req[c] EXCEPT !.off = @ + n]]
                 /\ hist' = [hist EXCEPT
                              ![k].last = IF fin /\ req[c].solo THEN Some(req[c].body)
                                          ELSE @,
                              ![k].fin  = IF fin THEN Some(req[c].body) ELSE @]
    /\ UNCHANGED <<dataDir, used, tileVars, ui>>

\* fs.writeFile fails (open or write: I/O error, no space): the route answers 500.
PostFault(c) ==
    /\ req[c].pc \in {"open", "write"}
    /\ used.faults < MaxFaults
    /\ used' = [used EXCEPT !.faults = @ + 1]
    /\ req' = [req EXCEPT ![c] = Answer500(req[c], "EIO")]
    /\ UNCHANGED <<dataDir, file, hist, tileVars, ui>>

---------------------------------------------------------------------------
(* Records (app/lib/types.ts).                                             *)

SubId(n) == <<"sub", "-", n>>

\* A SubstationData record.
Substation(n, done) ==
    [id |-> SubId(n), full_id |-> "way/1", name |-> Null, substation_type |-> Null,
     geometry |-> "Point", created_at |-> "t0", completed |-> done,
     tile_url_template |-> Null]

\* A ComponentPolygon record sourced from OSM.
OsmPolygon ==
    [id |-> <<"osm", "-", 1>>, substation_uuid |-> SubId(1), label |-> "Transformer",
     geometry |-> "g0", created_at |-> "t0", substation_full_id |-> "way/1",
     from_osm |-> TRUE, additional_info |-> Null, annotation_by |-> Null]

\* A user-authored ComponentPolygon record.
UserPolygon(n, label, info) ==
    [id |-> <<"uuid", "-", n>>, substation_uuid |-> SubId(1), label |-> label,
     geometry |-> "g1", created_at |-> "t1", substation_full_id |-> "way/1",
     from_osm |-> FALSE, additional_info |-> info, annotation_by |-> "ann"]

---------------------------------------------------------------------------
(* The browser client: components/AnnotateTab.tsx.                         *)

\* COMPONENT_OPTIONS: "Other" and two of the component types.
COMPONENT_OPTIONS == {"Other", "Circuit breaker", "Power Transformer"}

\* The components the user picks in the dialog.
ComponentChoices == {"Other", "Circuit breaker"}

\* What the user types into the Additional Info field.
InfoTexts == {" ", "x"}

\* String.prototype.trim, on the white space the texts here can hold.
RECURSIVE TrimStart(_)
TrimStart(s) ==
    IF Len(s) > 0 /\ SubSeq(s, 1, 1) \in {" ", "\n"}
    THEN TrimStart(SubSeq(s, 2, Len(s))) ELSE s

RECURSIVE TrimEnd(_)
TrimEnd(s) ==
    IF Len(s) > 0 /\ SubSeq(s, Len(s), Len(s)) \in {" ", "\n"}
    THEN TrimEnd(SubSeq(s, 1, Len(s) - 1)) ELSE s

Trim(s) == TrimEnd(TrimStart(s))

\* r[k] of a JavaScript object: undefined when the key is absent.
Get(r, k) == IF k \in DOMAIN r THEN r[k] ELSE Undefined

\* A text value that counts as false: undefined, null or the empty string.
Falsy(v) == v \in {Undefined, Null, ""}

\* poly.from_osm as a condition.
FromOsm(p) == "from_osm" \in DOMAIN p /\ p.from_osm

\* v || d
OrElse(v, d) == IF Falsy(v) THEN d ELSE v

\* A spread that also replaces the geometry of the record it copies.
SpreadNewGeometry(r, over) == over @@ [r EXCEPT !.geometry = "g0"]

\* { ...r, label, additional_info, annotation_by }
Spread(r, over) == over @@ r

\* id.startsWith("temp-")
StartsWithTemp(id) == id[1] = "temp-"

\* `temp-${Date.now()}`
TempId(c) == <<"temp-", c, 0>>

\* uuidv4(): the n-th id generated in client c's browser.
Uuidv4(c, n) == <<"uuid", c, n>>

\* The substation every client has selected.
SelectedSubstation == Substation(1, FALSE)

\* The name each client's user store holds.
AnnotatorName(c) == "ann-" \o c

\* The polygons collection as stored when the clients load the page.
StoredPolygons == <<OsmPolygon, UserPolygon(1, "Circuit breaker", Null)>>

OtherClient(c) == CHOOSE x \in Clients : x # c

\* dialogPolygon = null
NoPolygon == [id |-> NullId]

UiIdle ==
    [pc |-> "idle", dialogOpen |-> FALSE, dialogPolygon |-> NoPolygon,
     selectedComponent |-> "", dialogAdditionalInfo |-> "",
     componentPolygons |-> <<>>, isTemp |-> FALSE, newPolygonList |-> <<>>,
     toast |-> "none", made |-> 0, overtaken |-> FALSE, role |-> "none"]

\* The dialog closes.  Nothing reads dialogPolygon, selectedComponent or
\* dialogAdditionalInfo while the dialog is closed, and both handlers that
\* open it set all three, so the closed dialog holds them cleared.
CloseDialog(u) ==
    [u EXCEPT !.dialogOpen = FALSE, !.dialogPolygon = NoPolygon,
              !.selectedComponent = "", !.dialogAdditionalInfo = ""]

\* p.substation_uuid === substationId
ForSubstation(items) ==
    SelectSeq(items, LAMBDA p : Get(p, "substation_uuid") = SelectedSubstation.id)

\* getMapPolygons: the boundary polygon and the fetched polygons.
BoundaryPolygon ==
    [id |-> <<"substation_boundary_", "-", 1>>,
     substation_uuid |-> SelectedSubstation.id, label |-> "power_substation_polygon",
     geometry |-> SelectedSubstation.geometry,
     created_at |-> SelectedSubstation.created_at,
     substation_full_id |-> SelectedSubstation.full_id, from_osm |-> TRUE,
     additional_info |-> Undefined, annotation_by |-> Undefined]

getMapPolygons(u) ==
    {BoundaryPolygon} \cup {u.componentPolygons[i] : i \in DOMAIN u.componentPolygons}

\* handlePolygonCreated: a polygon is drawn on the map.
handlePolygonCreated(c, u) ==
    [u EXCEPT !.selectedComponent = "", !.dialogAdditionalInfo = "",
              !.toast = "none",
              !.dialogPolygon =
                  [id |-> TempId(c), substation_uuid |-> SelectedSubstation.id,
                   label |-> "", geometry |-> "g1", created_at |-> "t1",
                   substation_full_id |->
                       OrElse(SelectedSubstation.full_id, Undefined),
                   from_osm |-> FALSE, additional_info |-> Undefined,
                   annotation_by |-> Undefined],
              !.dialogOpen = TRUE]

\* handlePolygonClicked: a polygon of the map is clicked.
handlePolygonClicked(u, poly) ==
    IF FromOsm(poly) THEN [u EXCEPT !.toast = "none"]
    ELSE LET existingLabel == OrElse(Get(poly, "label"), "")
             existingInfo  == OrElse(Get(poly, "additional_info"), "")
             combinedInfo  == IF existingInfo # ""
                              THEN existingLabel \o "\n(Previously: " \o existingInfo \o ")"
                              ELSE existingLabel
         IN  IF existingLabel \in COMPONENT_OPTIONS
             THEN [u EXCEPT !.dialogPolygon = poly,
                            !.selectedComponent = existingLabel,
                            !.dialogAdditionalInfo = existingInfo,
                            !.toast = "none",
                            !.dialogOpen = TRUE]
             ELSE [u EXCEPT !.dialogPolygon = poly,
                            !.selectedComponent = "Other",
                            !.dialogAdditionalInfo = Trim(combinedInfo),
                            !.toast = "Legacy Label Detected",
                            !.dialogOpen = TRUE]

\* The checks of handleSavePolygon without the one on "Other".
SaveRefusalNoInfoCheck(c, u) ==
    IF u.dialogPolygon = NoPolygon THEN "return"
    ELSE IF u.selectedComponent = "" THEN "Component Required"
    ELSE IF AnnotatorName(c) = "" THEN "User Name Missing"
    ELSE IF Falsy(Get(u.dialogPolygon, "geometry")) THEN "Geometry Missing"
    ELSE "none"

\* handleSavePolygon lines 332-358: the checks before the first fetch; the
\* toast of the check that stops the save, or "none" when the save goes on.
SaveRefusal(c, u) ==
    IF u.dialogPolygon = NoPolygon THEN "return"
    ELSE IF u.selectedComponent = "" THEN "Component Required"
    ELSE IF u.selectedComponent = "Other" /\ Trim(u.dialogAdditionalInfo) = ""
         THEN "Additional Info Required"
    ELSE IF AnnotatorName(c) = "" THEN "User Name Missing"
    ELSE IF Falsy(Get(u.dialogPolygon, "geometry")) THEN "Geometry Missing"
    ELSE "none"

\* dialogAdditionalInfo.trim() || null
InfoOrNull(u) == OrElse(Trim(u.dialogAdditionalInfo), Null)

\* An insert that keeps the id of the drawn polygon.
InsertedPolygonKeepsId(c, u) ==
    [id |-> u.dialogPolygon.id, substation_uuid |-> SelectedSubstation.id,
     label |-> u.selectedComponent, geometry |-> u.dialogPolygon.geometry,
     created_at |-> "t2",
     substation_full_id |-> OrElse(SelectedSubstation.full_id, Null),
     from_osm |-> FALSE, additional_info |-> InfoOrNull(u),
     annotation_by |-> AnnotatorName(c)]

\* handleSavePolygon lines 365-379: the record an insert appends.
InsertedPolygon(c, u) ==
    [id |-> Uuidv4(c, u.made + 1), substation_uuid |-> SelectedSubstation.id,
     label |-> u.selectedComponent, geometry |-> u.dialogPolygon.geometry,
     created_at |-> "t2",
     substation_full_id |-> OrElse(SelectedSubstation.full_id, Null),
     from_osm |-> FALSE, additional_info |-> InfoOrNull(u),
     annotation_by |-> AnnotatorName(c)]

\* allPolygons.findIndex(p => p.id === id), 0 for -1.
FindIndex(items, id) ==
    IF \E i \in DOMAIN items : Get(items[i], "id") = id
    THEN CHOOSE i \in DOMAIN items :
            /\ Get(items[i], "id") = id
            /\ \A j \in 1..(i - 1) : Get(items[j], "id") # id
    ELSE 0

\* A save whose insert branch posts the array it read without the new record.
SaveListDropsInsert(c, u, all) ==
    IF all.kind # "array" THEN [ok |-> FALSE, list |-> <<>>]
    ELSE IF u.isTemp
    THEN [ok |-> TRUE, list |-> all.items]
    ELSE LET i == FindIndex(all.items, u.dialogPolygon.id)
         IN  IF i = 0 THEN [ok |-> FALSE, list |-> <<>>]
             ELSE [ok |-> TRUE,
                   list |-> [all.items EXCEPT ![i] =
                       Spread(@, [label |-> u.selectedComponent,
                                  additional_info |-> InfoOrNull(u),
                                  annotation_by |-> AnnotatorName(c)])]]

\* handleSavePolygon lines 361-402: the array to post, computed from the
\* body of the GET's answer; ok is FALSE where the code throws.
SaveList(c, u, all) ==
    IF all.kind # "array" THEN [ok |-> FALSE, list |-> <<>>]
    ELSE IF u.isTemp
    THEN [ok |-> TRUE, list |-> Append(all.items, InsertedPolygon(c, u))]
    ELSE LET i == FindIndex(all.items, u.dialogPolygon.id)
         IN  IF i = 0 THEN [ok |-> FALSE, list |-> <<>>]
             ELSE [ok |-> TRUE,
                   list |-> [all.items EXCEPT ![i] =
                       Spread(@, [label |-> u.selectedComponent,
                                  additional_info |-> InfoOrNull(u),
                                  annotation_by |-> AnnotatorName(c)])]]

\* A delete that drops the last record of the array, whatever its id.
DeleteListDropsLast(u, resp) ==
    LET all == JsonParse(resp.out).val
        kept == SelectSeq(all.items, LAMBDA p : Get(p, "id") # u.dialogPolygon.id)
    IN  IF resp.status # 200 \/ all.kind # "array" THEN [ok |-> FALSE, list |-> <<>>]
        ELSE IF Len(kept) = Len(all.items) THEN [ok |-> FALSE, list |-> <<>>]
        ELSE [ok |-> TRUE, list |-> SubSeq(all.items, 1, Len(all.items) - 1)]

\* handleDeletePolygon lines 437-444: the array to post.
DeleteList(u, resp) ==
    LET all == JsonParse(resp.out).val
        kept == SelectSeq(all.items, LAMBDA p : Get(p, "id") # u.dialogPolygon.id)
    IN  IF resp.status # 200 \/ all.kind # "array" THEN [ok |-> FALSE, list |-> <<>>]
        ELSE IF Len(kept) = Len(all.items) THEN [ok |-> FALSE, list |-> <<>>]
        ELSE [ok |-> TRUE, list |-> kept]

\* The GET of client x has been served and its answer is not yet processed.
GetServed(x) == ui[x].pc \in {"save_get", "del_get"} /\ req[x].pc = "done"

\* The clients' state after client c, whose state becomes uc, sends its POST.
\* The other client is overtaken when its GET is served by now, and c then
\* leads; c comes second when it was overtaken by the cycle that leads.
AfterPost(c, uc) ==
    LET o == OtherClient(c)
    IN  [x \in Clients |->
            IF x = c
            THEN [uc EXCEPT !.role = IF ui[c].overtaken /\ ui[o].role = "lead"
                                     THEN "second"
                                     ELSE IF GetServed(o) THEN "lead" ELSE "none"]
            ELSE [ui[x] EXCEPT !.overtaken = (@ \/ GetServed(x))]]

---------------------------------------------------------------------------
(* The store's direct callers, and the specifications.                     *)

\* The request bodies the API's callers send: JSON text of arrays of records
\* (the empty array included, and an array with a record labelled "Other"
\* that has an empty additional_info), JSON text of an object, and a body
\* that is no JSON text.
ApiTexts(k) ==
    IF k = "polygons"
    THEN { JsonStringify(JsonArray(<<>>)),
           JsonStringify(JsonArray(<<OsmPolygon, UserPolygon(1, "Breaker", Null)>>)),
           JsonStringify(JsonArray(<<UserPolygon(2, "Other", "")>>)),
           <<LB>> }
    ELSE { JsonStringify(JsonArray(<<Substation(1, TRUE)>>)),
           JsonStringify(JsonObject([message |-> "x"])) }

StoreInit ==
    /\ req = [c \in Clients |-> ReqIdle]
    /\ hist = [k \in Colls |-> [old |-> NoFile, last |-> NoValue, fin |-> NoValue]]
    /\ used = [posts |-> 0, faults |-> 0]
    /\ \/ /\ dataDir = FALSE
          /\ file = [k \in Colls |-> NoFile]
       \/ /\ dataDir = TRUE
          /\ file = [k \in Colls |->
                [exists |-> TRUE,
                 bytes |-> JsonStringify(JsonArray(
                     IF k = "polygons" THEN <<OsmPolygon>>
                     ELSE <<Substation(1, FALSE)>>))]]

Init ==
    /\ TileInit
    /\ StoreInit
    /\ ui = [c \in Clients |-> UiIdle]

\* A caller sends GET /api/{collection}.
ApiGET(c) ==
    /\ req[c].pc = "idle"
    /\ \E k \in Colls : req' = [req EXCEPT ![c] = GetArrive(c, k)]
    /\ UNCHANGED <<dataDir, file, hist, used, tileVars, ui>>

\* A caller sends POST /api/{collection} with a body.
ApiPOST(c) ==
    /\ req[c].pc = "idle"
    /\ used.posts < MaxPosts
    /\ used' = [used EXCEPT !.posts = @ + 1]
    /\ \E k \in Colls : \E text \in ApiTexts(k) :
          req' = [req EXCEPT ![c] = PostArrive(c, k, text)]
    /\ UNCHANGED <<dataDir, file, hist, tileVars, ui>>

\* The caller has its answer.
ApiReturn(c) ==
    /\ req[c].pc = "done"
    /\ req' = [req EXCEPT ![c] = ReqIdle]
    /\ UNCHANGED <<dataDir, file, hist, used, tileVars, ui>>

Next ==
    \E c \in Clients :
        \/ ApiGET(c)
        \/ ApiPOST(c)
        \/ ApiReturn(c)
        \/ EnsureDataDir(c)
        \/ GetAccess(c)
        \/ GetRead(c)
        \/ GetReadFault(c)
        \/ PostOpen(c)
        \/ PostWrite(c)
        \/ PostFault(c)

Spec == Init /\ [][Next]_vars

TileSpecInit ==
    /\ TileInit
    /\ StoreInit
    /\ dataDir = FALSE
    /\ ui = [c \in Clients |-> UiIdle]

TileNext ==
    \/ TileGET
    \/ TileReturn

TileSpec == TileSpecInit /\ [][TileNext]_vars

\* The page is loaded: fetchComponentPolygons has filled the local list.
UiInit ==
    /\ TileInit
    /\ req = [c \in Clients |-> ReqIdle]
    /\ hist = [k \in Colls |-> [old |-> NoFile, last |-> NoValue, fin |-> NoValue]]
    /\ used = [posts |-> 0, faults |-> 0]
    /\ dataDir = TRUE
    /\ file = [k \in Colls |->
                [exists |-> TRUE,
                 bytes |-> JsonStringify(JsonArray(
                     IF k = "polygons" THEN StoredPolygons
                     ELSE <<SelectedSubstation>>))]]
    /\ ui = [c \in Clients |->
                [UiIdle EXCEPT !.componentPolygons = ForSubstation(StoredPolygons)]]

\* The user draws a polygon (while the behaviour may still start a cycle).
UiDraw(c) ==
    /\ ui[c].pc = "idle" /\ ~ui[c].dialogOpen
    /\ used.posts < MaxPosts
    /\ ui' = [ui EXCEPT ![c] = handlePolygonCreated(c, ui[c])]
    /\ UNCHANGED <<storeVars, tileVars>>

\* The user clicks a polygon of the map (while the behaviour may still
\* start a cycle).
UiClick(c) ==
    /\ ui[c].pc = "idle" /\ ~ui[c].dialogOpen
    /\ used.posts < MaxPosts
    /\ \E poly \in getMapPolygons(ui[c]) :
          ui' = [ui EXCEPT ![c] = handlePolygonClicked(ui[c], poly)]
    /\ UNCHANGED <<storeVars, tileVars>>

\* The user picks a component and types additional information.
UiFill(c) ==
    /\ ui[c].pc = "idle" /\ ui[c].dialogOpen
    /\ \E label \in ComponentChoices, info \in InfoTexts :
          ui' = [ui EXCEPT ![c].selectedComponent = label,
                           ![c].dialogAdditionalInfo = info,
                           ![c].toast = "none"]
    /\ UNCHANGED <<storeVars, tileVars>>

\* The Cancel button: setDialogOpen(false).
UiCancel(c) ==
    /\ ui[c].pc = "idle" /\ ui[c].dialogOpen
    /\ ui' = [ui EXCEPT ![c] = CloseDialog([ui[c] EXCEPT !.toast = "none"])]
    /\ UNCHANGED <<storeVars, tileVars>>

\* The Save button (enabled with a component and a user name):
\* handleSavePolygon up to its fetch of the collection.
UiSave(c) ==
    /\ ui[c].pc = "idle" /\ ui[c].dialogOpen
    /\ ui[c].selectedComponent # "" /\ AnnotatorName(c) # ""
    /\ used.posts < MaxPosts
    /\ LET why == SaveRefusal(c, ui[c])
       IN  IF why = "none"
           THEN /\ ui' = [ui EXCEPT ![c].pc = "save_get",
                                    ![c].isTemp = StartsWithTemp(ui[c].dialogPolygon.id),
                                    ![c].toast = "none",
                                    ![c].overtaken = FALSE, ![c].role = "none"]
                /\ req' = [req EXCEPT ![c] = GetArrive(c, "polygons")]
                /\ used' = [used EXCEPT !.posts = @ + 1]
           ELSE /\ ui' = [ui EXCEPT ![c].toast = IF why = "return" THEN "none" ELSE why]
                /\ UNCHANGED <<req, used>>
    /\ UNCHANGED <<dataDir, file, hist, tileVars>>

\* handleSavePolygon, the GET is answered: the new array is built, the
\* success toast is shown and the POST is sent; or the catch block runs.
UiSaveGot(c) ==
    /\ ui[c].pc = "save_get" /\ req[c].pc = "done"
    /\ LET got == SaveList(c, ui[c], JsonParse(req[c].out).val)
       IN  IF got.ok
           THEN /\ ui' = AfterPost(c,
                            [ui[c] EXCEPT !.pc = "save_post",
                                          !.newPolygonList = got.list,
                                          !.made = IF ui[c].isTemp THEN @ + 1 ELSE @,
                                          !.toast = IF ui[c].isTemp THEN "Annotation Saved"
                                                    ELSE "Annotation Updated"])
                /\ req' = [req EXCEPT ![c] =
                            PostArrive(c, "polygons", JsonStringify(JsonArray(got.list)))]
           ELSE /\ ui' = [ui EXCEPT ![c].pc = "idle", ![c].isTemp = FALSE,
                                    ![c].toast = IF ui[c].isTemp THEN "Save Failed"
                                                 ELSE "Update Failed"]
                /\ req' = [req EXCEPT ![c] = ReqIdle]
    /\ UNCHANGED <<dataDir, file, hist, used, tileVars>>

\* handleSavePolygon, the POST is answered.
UiSaveDone(c) ==
    /\ ui[c].pc = "save_post" /\ req[c].pc = "done"
    /\ ui' = [ui EXCEPT ![c] =
                IF req[c].status = 200
                THEN CloseDialog(
                        [ui[c] EXCEPT !.pc = "idle", !.isTemp = FALSE,
                                      !.newPolygonList = <<>>, !.toast = "none",
                                      !.componentPolygons =
                                          ForSubstation(ui[c].newPolygonList)])
                ELSE [ui[c] EXCEPT !.pc = "idle", !.isTemp = FALSE,
                                   !.newPolygonList = <<>>, !.role = "none",
                                   !.toast = IF ui[c].isTemp THEN "Save Failed"
                                             ELSE "Update Failed"]]
    /\ req' = [req EXCEPT ![c] = ReqIdle]
    /\ UNCHANGED <<dataDir, file, hist, used, tileVars>>

\* The Delete button (shown for a polygon that is not a draft):
\* handleDeletePolygon up to its fetch of the collection.
UiDelete(c) ==
    /\ ui[c].pc = "idle" /\ ui[c].dialogOpen
    /\ ui[c].dialogPolygon # NoPolygon /\ ~StartsWithTemp(ui[c].dialogPolygon.id)
    /\ used.posts < MaxPosts
    /\ \E confirmed \in BOOLEAN :
          IF \/ ui[c].dialogPolygon = NoPolygon
             \/ FromOsm(ui[c].dialogPolygon)
             \/ StartsWithTemp(ui[c].dialogPolygon.id)
          THEN /\ ui' = [ui EXCEPT ![c] =
                          IF ui[c].dialogPolygon # NoPolygon
                             /\ StartsWithTemp(ui[c].dialogPolygon.id)
                          THEN CloseDialog([ui[c] EXCEPT !.toast = "none"])
                          ELSE [ui[c] EXCEPT !.toast = "none"]]
               /\ UNCHANGED <<req, used>>
          ELSE IF ~confirmed
          THEN /\ ui' = [ui EXCEPT ![c].toast = "none"]
               /\ UNCHANGED <<req, used>>
          ELSE /\ ui' = [ui EXCEPT ![c].pc = "del_get", ![c].toast = "none",
                                   ![c].overtaken = FALSE, ![c].role = "none"]
               /\ req' = [req EXCEPT ![c] = GetArrive(c, "polygons")]
               /\ used' = [used EXCEPT !.posts = @ + 1]
    /\ UNCHANGED <<dataDir, file, hist, tileVars>>

\* handleDeletePolygon, the GET is answered: the filtered array is posted,
\* or the catch block runs.
UiDeleteGot(c) ==
    /\ ui[c].pc = "del_get" /\ req[c].pc = "done"
    /\ LET got == DeleteList(ui[c], req[c])
       IN  IF got.ok
           THEN /\ ui' = AfterPost(c, [ui[c] EXCEPT !.pc = "del_post",
                                                    !.newPolygonList = got.list])
                /\ req' = [req EXCEPT ![c] =
                            PostArrive(c, "polygons", JsonStringify(JsonArray(got.list)))]
           ELSE /\ ui' = [ui EXCEPT ![c].pc = "idle", ![c].toast = "Delete Failed"]
                /\ req' = [req EXCEPT ![c] = ReqIdle]
    /\ UNCHANGED <<dataDir, file, hist, used, tileVars>>

\* handleDeletePolygon, the POST is answered.
UiDeleteDone(c) ==
    /\ ui[c].pc = "del_post" /\ req[c].pc = "done"
    /\ ui' = [ui EXCEPT ![c] =
                IF req[c].status = 200
                THEN CloseDialog(
                        [ui[c] EXCEPT
                            !.pc = "idle", !.newPolygonList = <<>>,
                            !.componentPolygons =
                                SelectSeq(@, LAMBDA p : Get(p, "id") # ui[c].dialogPolygon.id),
                            !.toast = "Annotation Deleted"])
                ELSE [ui[c] EXCEPT !.pc = "idle", !.newPolygonList = <<>>,
                                   !.role = "none", !.toast = "Delete Failed"]]
    /\ req' = [req EXCEPT ![c] = ReqIdle]
    /\ UNCHANGED <<dataDir, file, hist, used, tileVars>>

UiNext ==
    \E c \in Clients :
        \/ UiDraw(c)
        \/ UiClick(c)
        \/ UiFill(c)
        \/ UiCancel(c)
        \/ UiSave(c)
        \/ UiSaveGot(c)
        \/ UiSaveDone(c)
        \/ UiDelete(c)
        \/ UiDeleteGot(c)
        \/ UiDeleteDone(c)
        \/ EnsureDataDir(c)
        \/ GetAccess(c)
        \/ GetRead(c)
        \/ GetReadFault(c)
        \/ PostOpen(c)
        \/ PostWrite(c)
        \/ PostFault(c)

UiSpec == UiInit /\ [][UiNext]_vars

\* A polygons collection with records of an older vocabulary: a label that
\* is not in COMPONENT_OPTIONS, and an empty label.
LegacyPolygons ==
    <<OsmPolygon, UserPolygon(1, "Breaker", "x"), UserPolygon(2, "", Null)>>

\* One browser is open.
DialogUser == "c1"

\* The page is loaded over the current or the older collection.
DialogInit ==
    /\ TileInit
    /\ req = [c \in Clients |-> ReqIdle]
    /\ hist = [k \in Colls |-> [old |-> NoFile, last |-> NoValue, fin |-> NoValue]]
    /\ used = [posts |-> 0, faults |-> 0]
    /\ dataDir = TRUE
    /\ \E stored \in {StoredPolygons, LegacyPolygons} :
          /\ file = [k \in Colls |->
                      [exists |-> TRUE,
                       bytes |-> JsonStringify(JsonArray(
                           IF k = "polygons" THEN stored
                           ELSE <<SelectedSubstation>>))]]
          /\ ui = [c \in Clients |->
                      [UiIdle EXCEPT !.componentPolygons = ForSubstation(stored)]]

DialogNext ==
    \E c \in {DialogUser} :
        \/ UiDraw(c)
        \/ UiClick(c)
        \/ UiFill(c)
        \/ UiCancel(c)
        \/ UiSave(c)
        \/ UiSaveGot(c)
        \/ UiSaveDone(c)
        \/ UiDelete(c)
        \/ UiDeleteGot(c)
        \/ UiDeleteDone(c)
        \/ EnsureDataDir(c)
        \/ GetAccess(c)
        \/ GetRead(c)
        \/ GetReadFault(c)
        \/ PostOpen(c)
        \/ PostWrite(c)
        \/ PostFault(c)

DialogSpec == DialogInit /\ [][DialogNext]_vars

\* The tiles the map client asks for while the store is in use: one that is
\* stored and one that is not.
SharedRequests ==
    { <<Sub1, Str(3), Str(2), Str(0) \o DotPng>>,
      <<Sub1, Str(3), Str(0), Str(0) \o DotPng>> }

MapGET ==
    /\ tile.pc = "idle"
    /\ \E segs \in SharedRequests, fault \in BOOLEAN :
          tile' = TileAnswer(tileFs, segs, fault)
    /\ UNCHANGED <<tileFs, storeVars, ui>>

\* One caller of the store and the map client of the tile route, side by side.
SharedNext ==
    \/ MapGET
    \/ TileReturn
    \/ \E c \in {DialogUser} :
          \/ ApiGET(c)
          \/ ApiPOST(c)
          \/ ApiReturn(c)
          \/ EnsureDataDir(c)
          \/ GetAccess(c)
          \/ GetRead(c)
          \/ GetReadFault(c)
          \/ PostOpen(c)
          \/ PostWrite(c)
          \/ PostFault(c)

SharedSpec == Init /\ [][SharedNext]_vars

---------------------------------------------------------------------------
(* The substation lists of the Annotate tab and the Complete tab.          *)

\* The greatest number of records of a stored substations collection.
MaxSubs == 3

\* created_at values, and new Date(created_at).getTime() of them.
Times == {"t0", "t1"}

TimeOf(t) == IF t = "t0" THEN 0 ELSE 1

\* What a stored record holds as completed: true, false, or no such member.
Flags == {"true", "false", "absent"}

\* The n-th record of a stored substations collection.
StoredSubstation(n, flag, t) ==
    LET r == [Substation(n, flag = "true") EXCEPT !.created_at = t]
    IN  IF flag = "absent" THEN [k \in (DOMAIN r) \ {"completed"} |-> r[k]]
        ELSE r

SubstationFiles ==
    UNION { { [i \in 1..n |-> StoredSubstation(i, f[i], t[i])] :
                f \in [1..n -> Flags], t \in [1..n -> Times] } : n \in 0..MaxSubs }

\* s.completed === false
CompletedIsFalse(s) == "completed" \in DOMAIN s /\ s.completed = FALSE

\* !s.completed
NotCompleted(s) == ~("completed" \in DOMAIN s /\ s.completed)

\* s.completed as a condition
Completed(s) == "completed" \in DOMAIN s /\ s.completed

\* items.sort((a, b) => sign * (time(a) - time(b))): a stable sort.
RECURSIVE SortByTime(_, _)
SortByTime(items, sign) ==
    IF items = <<>> THEN <<>>
    ELSE LET init == SortByTime(SubSeq(items, 1, Len(items) - 1), sign)
             x    == items[Len(items)]
             p    == Cardinality({i \in DOMAIN init :
                        sign * (TimeOf(init[i].created_at) - TimeOf(x.created_at)) <= 0})
         IN  SubSeq(init, 1, p) \o <<x>> \o SubSeq(init, p + 1, Len(init))

\* AnnotateTab.fetchSubstations lines 149-151
fetchSubstations(all) == SortByTime(SelectSeq(all, NotCompleted), 1)

\* CompleteTab.fetchCompletedSubstations lines 115-117
fetchCompletedSubstations(all) == SortByTime(SelectSeq(all, Completed), -1)

\* Client c1 has the Annotate tab open, client c2 the Complete tab.
TabOf(c) == IF c = "c1" THEN "annotate" ELSE "complete"

TabIdle ==
    [pc |-> "idle", substations |-> <<>>, selectedSubstation |-> NullId,
     loaded |-> FALSE, toast |-> "none"]

QueueInit ==
    /\ TileInit
    /\ req = [c \in Clients |-> ReqIdle]
    /\ hist = [k \in Colls |-> [old |-> NoFile, last |-> NoValue, fin |-> NoValue]]
    /\ used = [posts |-> 0, faults |-> 0]
    /\ dataDir = TRUE
    /\ \E stored \in SubstationFiles :
          file = [k \in Colls |->
                    [exists |-> TRUE,
                     bytes |-> JsonStringify(JsonArray(
                         IF k = "polygons" THEN StoredPolygons ELSE stored))]]
    /\ ui = [c \in Clients |-> TabIdle]

\* The tab is mounted and its effect calls the fetch function, which sends
\* the GET; after a failed fetch the page is loaded again.
TabFetch(c) ==
    /\ ui[c].pc = "idle" /\ req[c].pc = "idle" /\ ~ui[c].loaded
    /\ ui' = [ui EXCEPT ![c].pc = "subs_get", ![c].toast = "none"]
    /\ req' = [req EXCEPT ![c] = GetArrive(c, "substations")]
    /\ UNCHANGED <<dataDir, file, hist, used, tileVars>>

\* The GET is answered: the tab's list and its selection are set, or the
\* catch block shows the error toast.
TabFetched(c) ==
    /\ ui[c].pc = "subs_get" /\ req[c].pc = "done"
    /\ LET all  == JsonParse(req[c].out).val
           list == IF TabOf(c) = "annotate" THEN fetchSubstations(all.items)
                   ELSE fetchCompletedSubstations(all.items)
       IN  ui' = [ui EXCEPT ![c] =
                    IF req[c].status = 200 /\ all.kind = "array"
                    THEN [pc |-> "idle", substations |-> list,
                          selectedSubstation |->
                              IF Len(list) > 0 THEN list[1].id ELSE NullId,
                          loaded |-> TRUE, toast |-> "none"]
                    ELSE [ui[c] EXCEPT !.pc = "idle", !.toast = "Error"]]
    /\ req' = [req EXCEPT ![c] = ReqIdle]
    /\ UNCHANGED <<dataDir, file, hist, used, tileVars>>

QueueNext ==
    \E c \in Clients :
        \/ TabFetch(c)
        \/ TabFetched(c)
        \/ EnsureDataDir(c)
        \/ GetAccess(c)
        \/ GetRead(c)
        \/ GetReadFault(c)

QueueSpec == QueueInit /\ [][QueueNext]_vars

---------------------------------------------------------------------------
(* Completing and reopening a substation: AnnotateTab's                    *)
(* handleCompleteSubstation and CompleteTab's handleReopenSubstation.      *)
(* The type field's own save (updateSubstationType, sent when a standard   *)
(* type is picked or the custom text loses the focus) is a separate cycle  *)
(* and is not part of these handlers; a standard type reaches the tab's    *)
(* state from the stored record, through setupSubstationType.              *)

\* SUBSTATION_TYPES: "Other" and two of the standard types.
SUBSTATION_TYPES == {"Transmission", "Distribution", "Other"}

\* setupSubstationType(selectedSubstation.substation_type ?? ""), run by the
\* effect on selectedSubstation.
setupSubstationType(u, currentType) ==
    IF Falsy(currentType)
    THEN [u EXCEPT !.substationType = "", !.substationOtherText = ""]
    ELSE IF currentType \in SUBSTATION_TYPES
    THEN [u EXCEPT !.substationType = currentType, !.substationOtherText = ""]
    ELSE [u EXCEPT !.substationType = "Other", !.substationOtherText = currentType]

\* A map that changes every record, whatever its id.
MapSelectedAll(all, id, over) ==
    [i \in DOMAIN all |-> Spread(all[i], over)]

\* allSubstations.map(sub => sub.id === selectedSubstation.id
\*                           ? { ...sub, ...over } : sub)
MapSelected(all, id, over) ==
    [i \in DOMAIN all |-> IF Get(all[i], "id") = id THEN Spread(all[i], over)
                          ELSE all[i]]

\* A reopening that also clears the substation type.
ReopenFieldsClearType == [completed |-> FALSE, substation_type |-> Null]

\* handleReopenSubstation: { ...sub, completed: false }
ReopenFields == [completed |-> FALSE]

\* The Annotate tab (c1) and the Complete tab (c2) over a stored collection
\* of two substations; nothing is loaded yet.
LifeInit ==
    /\ TileInit
    /\ req = [c \in Clients |-> ReqIdle]
    /\ hist = [k \in Colls |-> [old |-> NoFile, last |-> NoValue, fin |-> NoValue]]
    /\ used = [posts |-> 0, faults |-> 0]
    /\ dataDir = TRUE
    /\ \E f1 \in Flags, f2 \in {"true", "false"}, ty \in {Null, "Transmission"} :
          file = [k \in Colls |->
                    [exists |-> TRUE,
                     bytes |-> JsonStringify(JsonArray(
                         IF k = "polygons" THEN StoredPolygons
                         ELSE << [StoredSubstation(1, f1, "t0")
                                     EXCEPT !.substation_type = ty],
                                 StoredSubstation(2, f2, "t1") >>))]]
    /\ ui = [c \in Clients |->
                [pc |-> "idle", substations |-> <<>>, selectedSubstation |-> NullId,
                 loaded |-> FALSE, toast |-> "none",
                 substationType |-> "", substationOtherText |-> ""]]

\* The tab is mounted (or shown again) and fetches its list; the toast of
\* an earlier action is gone by then.
LifeFetch(c) ==
    /\ ui[c].pc = "idle" /\ req[c].pc = "idle" /\ req[OtherClient(c)].pc = "idle"
    /\ ui' = [ui EXCEPT ![c].pc = "subs_get", ![c].toast = "none"]
    /\ req' = [req EXCEPT ![c] = GetArrive(c, "substations")]
    /\ UNCHANGED <<dataDir, file, hist, used, tileVars>>

\* The list's GET is answered: list and selection are set and the effect on
\* the selection sets the type fields up; or the catch block shows "Error".
LifeFetched(c) ==
    /\ ui[c].pc = "subs_get" /\ req[c].pc = "done"
    /\ LET all  == JsonParse(req[c].out).val
           list == IF TabOf(c) = "annotate" THEN fetchSubstations(all.items)
                   ELSE fetchCompletedSubstations(all.items)
           u    == [ui[c] EXCEPT !.pc = "idle", !.substations = list,
                                 !.loaded = TRUE,
                                 !.selectedSubstation =
                                     IF Len(list) > 0 THEN list[1].id ELSE NullId]
       IN  ui' = [ui EXCEPT ![c] =
                    IF req[c].status = 200 /\ all.kind = "array"
                    THEN IF Len(list) > 0 /\ TabOf(c) = "annotate"
                         THEN setupSubstationType(u, Get(list[1], "substation_type"))
                         ELSE u
                    ELSE [ui[c] EXCEPT !.pc = "idle", !.toast = "Error"]]
    /\ req' = [req EXCEPT ![c] = ReqIdle]
    /\ UNCHANGED <<dataDir, file, hist, used, tileVars>>

\* handleSubstationTypeChange("") / ("Other"), and the custom text typed
\* into the field shown with "Other".
TabType(c) ==
    /\ ui[c].pc = "idle" /\ TabOf(c) = "annotate"
    /\ \A d \in Clients : req[d].pc = "idle"
    /\ ui[c].selectedSubstation # NullId
    /\ \E in \in {<<"", "">>, <<"Other", " ">>, <<"Other", " Rail ">>} :
          ui' = [ui EXCEPT ![c].substationType = in[1],
                           ![c].substationOtherText = in[2],
                           ![c].toast = "none"]
    /\ UNCHANGED <<storeVars, tileVars>>

\* handleCompleteSubstation up to its fetch of the collection.
TabComplete(c) ==
    /\ ui[c].pc = "idle" /\ req[c].pc = "idle" /\ TabOf(c) = "annotate"
    /\ req[OtherClient(c)].pc = "idle"
    /\ used.posts < MaxPosts
    /\ IF ui[c].selectedSubstation = NullId
       THEN UNCHANGED <<ui, req, used>>
       ELSE IF \/ ui[c].substationType = ""
               \/ ui[c].substationType = "Other"
                  /\ Trim(ui[c].substationOtherText) = ""
       THEN /\ ui' = [ui EXCEPT ![c].toast = "Type Required"]
            /\ UNCHANGED <<req, used>>
       ELSE \E confirmed \in BOOLEAN :
               IF confirmed
               THEN /\ ui' = [ui EXCEPT ![c].pc = "complete_get", ![c].toast = "none"]
                    /\ req' = [req EXCEPT ![c] = GetArrive(c, "substations")]
                    /\ used' = [used EXCEPT !.posts = @ + 1]
               ELSE UNCHANGED <<ui, req, used>>
    /\ UNCHANGED <<dataDir, file, hist, tileVars>>

\* handleCompleteSubstation, the GET is answered: the new array is posted,
\* or the catch block runs.
TabCompleteGot(c) ==
    /\ ui[c].pc = "complete_get" /\ req[c].pc = "done"
    /\ LET all  == JsonParse(req[c].out).val
           id   == ui[c].selectedSubstation
           finalSubstationType ==
               IF ui[c].substationType = "Other"
               THEN Trim(ui[c].substationOtherText) ELSE ui[c].substationType
           list == MapSelected(all.items, id,
                       [completed |-> TRUE, substation_type |-> finalSubstationType])
       IN  IF /\ req[c].status = 200 /\ all.kind = "array"
              /\ \E i \in DOMAIN all.items : Get(all.items[i], "id") = id
           THEN /\ ui' = [ui EXCEPT ![c].pc = "complete_post"]
                /\ req' = [req EXCEPT ![c] =
                            PostArrive(c, "substations", JsonStringify(JsonArray(list)))]
           ELSE /\ ui' = [ui EXCEPT ![c].pc = "idle", ![c].toast = "Completion Failed"]
                /\ req' = [req EXCEPT ![c] = ReqIdle]
    /\ UNCHANGED <<dataDir, file, hist, used, tileVars>>

\* handleReopenSubstation up to its fetch of the collection.
TabReopen(c) ==
    /\ ui[c].pc = "idle" /\ req[c].pc = "idle" /\ TabOf(c) = "complete"
    /\ req[OtherClient(c)].pc = "idle"
    /\ used.posts < MaxPosts
    /\ IF ui[c].selectedSubstation = NullId
       THEN UNCHANGED <<ui, req, used>>
       ELSE \E confirmed \in BOOLEAN :
               IF confirmed
               THEN /\ ui' = [ui EXCEPT ![c].pc = "reopen_get", ![c].toast = "none"]
                    /\ req' = [req EXCEPT ![c] = GetArrive(c, "substations")]
                    /\ used' = [used EXCEPT !.posts = @ + 1]
               ELSE UNCHANGED <<ui, req, used>>
    /\ UNCHANGED <<dataDir, file, hist, tileVars>>

\* handleReopenSubstation, the GET is answered.
TabReopenGot(c) ==
    /\ ui[c].pc = "reopen_get" /\ req[c].pc = "done"
    /\ LET all  == JsonParse(req[c].out).val
           id   == ui[c].selectedSubstation
           list == MapSelected(all.items, id, ReopenFields)
       IN  IF /\ req[c].status = 200 /\ all.kind = "array"
              /\ \E i \in DOMAIN all.items : Get(all.items[i], "id") = id
           THEN /\ ui' = [ui EXCEPT ![c].pc = "reopen_post"]
                /\ req' = [req EXCEPT ![c] =
                            PostArrive(c, "substations", JsonStringify(JsonArray(list)))]
           ELSE /\ ui' = [ui EXCEPT ![c].pc = "idle", ![c].toast = "Reopen Failed"]
                /\ req' = [req EXCEPT ![c] = ReqIdle]
    /\ UNCHANGED <<dataDir, file, hist, used, tileVars>>

\* Either handler, the POST is answered: the success toast and the refresh
\* of the tab's list, or the catch block.
TabPosted(c) ==
    /\ ui[c].pc \in {"complete_post", "reopen_post"} /\ req[c].pc = "done"
    /\ IF req[c].status = 200
       THEN /\ ui' = [ui EXCEPT ![c].pc = "subs_get",
                                ![c].toast = IF ui[c].pc = "complete_post"
                                             THEN "Substation Completed!"
                                             ELSE "Substation Reopened!"]
            /\ req' = [req EXCEPT ![c] = GetArrive(c, "substations")]
       ELSE /\ ui' = [ui EXCEPT ![c].pc = "idle",
                                ![c].toast = IF ui[c].pc = "complete_post"
                                             THEN "Completion Failed"
                                             ELSE "Reopen Failed"]
            /\ req' = [req EXCEPT ![c] = ReqIdle]
    /\ UNCHANGED <<dataDir, file, hist, used, tileVars>>

\* The two tabs, the store's steps, and a caller of the API who replaces the
\* substations collection (its request takes the place of c2's).  The tabs belong to one page, of which one tab is
\* shown at a time: a handler starts when no request is in flight.
LifeNext ==
    \E c \in Clients :
        \/ LifeFetch(c)
        \/ LifeFetched(c)
        \/ TabType(c)
        \/ TabComplete(c)
        \/ TabCompleteGot(c)
        \/ TabReopen(c)
        \/ TabReopenGot(c)
        \/ TabPosted(c)
        \/ /\ ui[c].pc = "idle" /\ req[OtherClient(c)].pc = "idle"
           /\ TabOf(c) = "complete"
           /\ ApiPOST(c)
           /\ req'[c].coll = "substations"
        \/ ui[c].pc = "idle" /\ ApiReturn(c)
        \/ EnsureDataDir(c)
        \/ GetAccess(c)
        \/ GetRead(c)
        \/ GetReadFault(c)
        \/ PostOpen(c)
        \/ PostWrite(c)
        \/ PostFault(c)

LifeSpec == LifeInit /\ [][LifeNext]_vars

---------------------------------------------------------------------------
(* Claims about the document store, checked under Spec.                    *)

\* The value readAll returns for a file holding f.
ValueOf(f) == IF f.exists THEN JsonParse(f.bytes).val ELSE JsonArray(<<>>)

IsDocument(f) == (~f.exists) \/ JsonParse(f.bytes).ok

\* C1: writeAll is atomic with respect to readers.  A readAll whose
\* fs.readFile runs while exactly one writeAll is in flight on the same
\* collection (and no other write has touched the file since it last held a
\* complete document) returns the content stored before the write or the
\* content being written, and never fails on a partial document.
C1_ReadSeesOldOrNew ==
    [][\A c \in Clients :
          LET k == req[c].coll
              W == ActiveWriters(k)
              w == CHOOSE x \in W : TRUE
          IN  ( /\ req[c].pc = "read"
                /\ req'[c].pc = "done"
                /\ req'[c].code # "EIO"
                /\ Cardinality(W) = 1
                /\ req[w].solo
                /\ IsDocument(hist[k].old) )
              => /\ req'[c].status = 200
                 /\ req'[c].ret \in {ValueOf(hist[k].old), req[w].body}]_vars

\* A reader's fs.readFile ran between the open and the first write of the
\* only writeAll in flight, and JSON.parse failed on the empty file.
C1_Witness ==
    \E c \in Clients :
        /\ req[c].pc = "done" /\ req[c].method = "GET"
        /\ req[c].status = 500 /\ req[c].code = "SyntaxError"
        /\ Cardinality(ActiveWriters(req[c].coll)) = 1
        /\ \A w \in ActiveWriters(req[c].coll) : req[w].solo /\ req[w].off = 0
        /\ IsDocument(hist[req[c].coll].old)

\* C3: round trip.  A readAll that reads the file when no write is in flight
\* and the last write W ran alone and succeeded returns exactly the sequence
\* W wrote, and GET answers 200 with that sequence as its body.
C3_RoundTrip ==
    \A c \in Clients :
        (req[c].pc = "done" /\ req[c].method = "GET" /\ req[c].exp.some
            /\ req[c].code # "EIO")
        => /\ req[c].status = 200
           /\ req[c].ret = req[c].exp.val
           /\ JsonParse(req[c].out) = [ok |-> TRUE, val |-> req[c].exp.val]

\* A read after a write of a sequence of two records returned them.
C3_Witness ==
    \E c \in Clients :
        /\ req[c].pc = "done" /\ req[c].method = "GET" /\ req[c].exp.some
        /\ req[c].status = 200
        /\ Len(req[c].ret.items) = 2

\* C4: readAll on a collection whose file does not exist (fs.access throws
\* ENOENT) returns the empty sequence and GET answers 200 with [], whether
\* or not the data directory existed when the request arrived.
C4_MissingFileIsEmpty ==
    \A c \in Clients :
        (req[c].pc = "done" /\ req[c].method = "GET" /\ req[c].code = "ENOENT")
        => /\ req[c].status = 200
           /\ req[c].ret = JsonArray(<<>>)
           /\ req[c].out = <<LB, RB>>

\* A first-run GET: neither the file nor the data directory existed.
C4_Witness ==
    \E c \in Clients :
        /\ req[c].pc = "done" /\ req[c].method = "GET" /\ req[c].code = "ENOENT"
        /\ ~req[c].dir0
        /\ req[c].status = 200

---------------------------------------------------------------------------
(* Claims about the clients' cycles, checked under UiSpec.                 *)

\* The two clients' cycles raced (both GETs were served before either POST
\* arrived), no I/O fault occurred and both POSTs have been answered, with 200.
RaceOver ==
    /\ \E c \in Clients : ui[c].role = "lead" /\ ui[OtherClient(c)].role = "second"
    /\ \A c \in Clients : ui[c].pc = "idle"
    /\ used.faults = 0

\* C2: last writer wins.  When two clients each run a GET -> modify -> POST
\* cycle on the polygons collection and both GETs happen before either POST,
\* then once both POSTs are answered (with 200: no client got an error) the
\* stored collection is exactly the array posted last, taking as last the
\* POST that the server answered last.
C2_LastWriterWins ==
    RaceOver
    => /\ hist["polygons"].fin.some
       /\ file["polygons"] =
              [exists |-> TRUE, bytes |-> JsonStringify(hist["polygons"].fin.val)]

\* After such a race the stored document is neither of the two arrays: it
\* is no JSON text at all.
C2_Witness ==
    /\ RaceOver
    /\ file["polygons"].exists
    /\ ~JsonParse(file["polygons"].bytes).ok

---------------------------------------------------------------------------
(* Claims about the tile route, checked under TileSpec.                    *)

\* A decimal numeral without sign or leading zero.
ValidNat(s) ==
    /\ s # <<>>
    /\ \A i \in 1..Len(s) : IsDigit(s[i])
    /\ (Len(s) = 1 \/ s[1] # "0")

RECURSIVE NatOf(_)
NatOf(s) == IF s = <<>> THEN 0 ELSE 10 * NatOf(SubSeq(s, 1, Len(s) - 1)) + DigitVal(s[Len(s)])

HasPng(s) == Len(s) > 4 /\ SubSeq(s, Len(s) - 3, Len(s)) = DotPng

\* The row text of the last segment: what precedes ".png".
YText(s) == IF HasPng(s) THEN SubSeq(s, 1, Len(s) - 4) ELSE s

PlainName(s) == s # <<>> /\ \A i \in 1..Len(s) : s[i] \notin {".", "/"}

\* The request is (datasetId, z, x, y.png) with non-negative integers z, x, y.
WellFormedTile ==
    /\ tile.pc = "done"
    /\ Len(tile.segs) = 4
    /\ PlainName(tile.segs[1])
    /\ ValidNat(tile.segs[2])
    /\ ValidNat(tile.segs[3])
    /\ HasPng(tile.segs[4])
    /\ ValidNat(YText(tile.segs[4]))

ReqZ == NatOf(tile.segs[2])

ReqY == NatOf(YText(tile.segs[4]))

\* 0 <= y < 2^z
RowInRange == NumLess(Num(ReqY), Pow2Num(ReqZ))

\* C5: for a well-formed request with 0 <= y < 2^z the route reads
\* {tileDir}/{datasetId}/{z}/{x}/{2^z - 1 - y}.png.
C5_ReadsFlippedRow ==
    (WellFormedTile /\ RowInRange)
    => tile.read = TILE_BASE_PATH \o
          <<tile.segs[1], tile.segs[2], tile.segs[3],
            NumToString(NumSub(NumSub(Pow2Num(ReqZ), Num(1)), Num(ReqY))) \o DotPng>>

\* Zoom 32, row 0: the route computed row 0 from 1 << 32 = 1, where
\* 2^32 - 1 - 0 = 4294967295.
C5_Witness ==
    /\ WellFormedTile /\ RowInRange
    /\ ReqZ = 32 /\ ReqY = 0
    /\ tile.yToUse = Num(0)
    /\ tile.read = TILE_BASE_PATH \o <<Sub1, Str(32), Str(2), Str(0) \o DotPng>>

\* C6: the row flip the route computes is an involution: flipping the row
\* it computed gives back the requested row.
C6_FlipInvolution ==
    (WellFormedTile /\ RowInRange)
    => /\ tile.y = Num(ReqY)
       /\ tile.yToUse = TmsFlip(tile.y, tile.z)
       /\ TmsFlip(tile.yToUse, tile.z) = tile.y

\* The route flipped row 0 of zoom 3 to row 7.
C6_Witness ==
    /\ WellFormedTile /\ RowInRange
    /\ ReqZ = 3 /\ ReqY = 0
    /\ tile.yToUse = Num(7)

\* C7: a request with another number of segments than four is answered 400
\* and no file is read for it.
C7_WrongSegmentCount ==
    (tile.pc = "done" /\ Len(tile.segs) # 4)
    => /\ tile.status = 400
       /\ tile.read = NoPath
       /\ tile.code = "none"
       /\ tile.ctype # "image/png"

\* A request of five segments was answered.
C7_Witness ==
    /\ tile.pc = "done"
    /\ Len(tile.segs) = 5
    /\ tile.status = 400

\* C8: a well-formed request whose tile file is missing gets a status of
\* its own: not the malformed-request status 400, and not a 5xx status.
C8_NotFoundIsDistinct ==
    (WellFormedTile /\ tile.code = "ENOENT")
    => (tile.status # 400 /\ tile.status < 500)

\* A well-formed request for a missing tile was answered 400.
C8_Witness ==
    /\ WellFormedTile /\ tile.code = "ENOENT"
    /\ tile.status = 400

\* C9: an I/O error other than absence on an existing tile file is
\* answered with a 5xx status.
C9_StorageFaultIs5xx ==
    (tile.pc = "done" /\ tile.code \in {"EACCES", "EISDIR"})
    => tile.status >= 500

\* A read of an existing tile failed with EACCES and was answered 400.
C9_Witness ==
    /\ WellFormedTile /\ tile.code = "EACCES"
    /\ tile.read \in DOMAIN tileFs
    /\ tile.status = 400

\* C10: a four-segment request in which z, x or y is not a non-negative
\* integer is answered 400 and carries no tile bytes.
C10_NonIntegerRejected ==
    ( /\ tile.pc = "done"
      /\ Len(tile.segs) = 4
      /\ ~( /\ ValidNat(tile.segs[2])
            /\ ValidNat(tile.segs[3])
            /\ ValidNat(YText(tile.segs[4])) ) )
    => (tile.status = 400 /\ tile.ctype # "image/png")

\* The request sub1/3/2/7a.png was answered 200 with the bytes of 0.png.
C10_Witness ==
    /\ tile.pc = "done"
    /\ tile.segs = <<Sub1, Str(3), Str(2), <<"7", "a", ".", "p", "n", "g">> >>
    /\ tile.status = 200 /\ tile.ctype = "image/png"
    /\ tile.body = tileFs[TilePath(Sub1, 3, 2, Num(0))]

\* C11: the route computes no row from a wrapped value of 1 << z: for a
\* well-formed request with 0 <= y < 2^z the row it reads satisfies
\* 0 <= tms_y < 2^z.
C11_RowWithinRange ==
    (WellFormedTile /\ RowInRange)
    => /\ ~tile.yToUse.nan
       /\ ~NumIsNeg(tile.yToUse)
       /\ NumLess(tile.yToUse, Pow2Num(ReqZ))

\* Zoom 31, row 0: the route computed the row -2147483649 from
\* 1 << 31 = -2147483648 and tried to read the file of that name.
C11_Witness ==
    /\ WellFormedTile /\ RowInRange
    /\ ReqZ = 31 /\ ReqY = 0
    /\ tile.yToUse = NumSub(NumNeg(Pow2Num(31)), Num(1))
    /\ tile.read = TILE_BASE_PATH \o
          <<tile.segs[1], Str(31), tile.segs[3],
            <<"-", "2", "1", "4", "7", "4", "8", "3", "6", "4", "9">> \o DotPng>>

ReqX == NatOf(tile.segs[3])

\* The object key the map layer builds for the tile address of the request.
KeyOfRequest ==
    SplitSlash(createTile(UrlTemplate, tile.segs[1],
                          [z |-> Num(ReqZ), x |-> Num(ReqX), y |-> Num(ReqY)]))

\* The last n components of path p.
LastParts(p, n) == SubSeq(p, Len(p) - n + 1, Len(p))

\* C12: for every tile address (datasetId, z, x, y) with 0 <= y < 2^z the
\* object key built by createTile and the file path built by the route name
\* the same datasetId/z/x/row, and that row is 2^z - 1 - y.
C12_SameAddress ==
    (WellFormedTile /\ RowInRange)
    => /\ LastParts(KeyOfRequest, 4) = LastParts(tile.read, 4)
       /\ LastParts(KeyOfRequest, 4) =
             <<tile.segs[1], Str(ReqZ), Str(ReqX),
               NumToString(NumSub(NumSub(Pow2Num(ReqZ), Num(1)), Num(ReqY))) \o DotPng>>

\* Zoom 31, row 7: key and path agree with each other on row -2147483656,
\* where 2^31 - 1 - 7 = 2147483640.
C12_Witness ==
    /\ WellFormedTile /\ RowInRange
    /\ ReqZ = 31 /\ ReqY = 7
    /\ LastParts(KeyOfRequest, 4) = LastParts(tile.read, 4)
    /\ KeyOfRequest[Len(KeyOfRequest)] =
          <<"-", "2", "1", "4", "7", "4", "8", "3", "6", "5", "6">> \o DotPng

\* C13: when the file at the path the route computed exists and the read of
\* it does not fail, the answer is 200 with Content-Type image/png and the
\* bytes of that file as body.
C13_TileServed ==
    (/\ tile.pc = "done"
     /\ tile.read \in DOMAIN tileFs
     /\ tile.code = "none")
    => /\ tile.status = 200
       /\ tile.ctype = "image/png"
       /\ tile.body = tileFs[tile.read]

\* Row 0 of zoom 3, column 2 was asked for and the bytes of the stored TMS
\* row 7 were returned.
C13_Witness ==
    /\ tile.pc = "done"
    /\ tile.segs = <<Sub1, Str(3), Str(2), Str(0) \o DotPng>>
    /\ tile.read = TilePath(Sub1, 3, 2, Num(7))
    /\ tile.code = "none"
    /\ tile.status = 200
    /\ tile.body = tileFs[TilePath(Sub1, 3, 2, Num(7))]

---------------------------------------------------------------------------
(* Further claims about the document store, checked under Spec.            *)

\* C14: GET /api/{collection} answers 200 with the stored records in their
\* stored order when the read succeeds, and 500 when the read fails for a
\* reason other than the file being absent, stored text that is no JSON
\* included; only the absent file is answered 200 with [].
C14_GetAnswers ==
    [][\A c \in Clients :
          LET k      == req[c].coll
              parsed == JsonParse(file[k].bytes)
          IN  /\ (req[c].pc = "read" /\ req'[c].pc = "done")
                 => \/ /\ parsed.ok
                       /\ req'[c].code = "none"
                       /\ req'[c].status = 200
                       /\ req'[c].ret = parsed.val
                       /\ req'[c].out = JsonStringify(parsed.val)
                    \/ /\ req'[c].code = "EIO" \/ ~parsed.ok
                       /\ req'[c].code \in {"EIO", "SyntaxError"}
                       /\ req'[c].status = 500
                       /\ JsonParse(req'[c].out).val.kind = "object"
              /\ (req[c].pc = "access" /\ req'[c].pc = "done")
                 => /\ ~file[k].exists
                    /\ req'[c].status = 200
                    /\ req'[c].ret = JsonArray(<<>>)]_vars

\* One GET was answered 200 with the stored record, and a later GET was
\* answered 500 for a file that exists and holds no JSON text.
C14_Witness ==
    \E c, d \in Clients :
        /\ req[c].pc = "done" /\ req[c].method = "GET"
        /\ req[c].status = 200 /\ req[c].code = "none"
        /\ Len(req[c].ret.items) >= 1
        /\ req[d].pc = "done" /\ req[d].method = "GET" /\ req[d].coll = req[c].coll
        /\ req[d].status = 500 /\ req[d].code = "SyntaxError"
        /\ file[req[d].coll].exists
        /\ ~JsonParse(file[req[d].coll].bytes).ok

\* C15: a write that fails is answered 500 and leaves the stored collection
\* as it was before the request.  Stated for a POST that was the only write
\* in flight from its open to its failure: when it fails, the file is the
\* file it found.
C15_FailedWriteKeepsOld ==
    [][\A c \in Clients :
          LET k == req[c].coll
          IN  ( /\ req[c].method = "POST"
                /\ req[c].pc \in {"open", "write"}
                /\ req[c].pc = "write" => req[c].solo
                /\ req'[c].pc = "done"
                /\ req'[c].code = "EIO" )
              => /\ req'[c].status = 500
                 /\ file'[k] = (IF req[c].pc = "write" THEN hist[k].old ELSE file[k])]_vars

\* The only POST ever sent failed in fs.writeFile after the open: it was
\* answered 500, and the file that held a record is now empty, which the
\* next GET answers with 500.
C15_Witness ==
    \E c \in Clients :
        LET k == req[c].coll
        IN  /\ req[c].pc = "done" /\ req[c].method = "POST"
            /\ req[c].status = 500 /\ req[c].code = "EIO"
            /\ used.posts = 1
            /\ hist[k].old.exists /\ IsDocument(hist[k].old)
            /\ Len(ValueOf(hist[k].old).items) = 1
            /\ file[k] = [exists |-> TRUE, bytes |-> <<>>]
            /\ ~IsDocument(file[k])

\* The record invariant of the polygons collection: a user-authored record
\* has a label, and additional_info with text in it when the label is "Other".
ValidRecord(p) ==
    \/ FromOsm(p)
    \/ /\ ~Falsy(Get(p, "label"))
       /\ Get(p, "label") = "Other"
          => (~Falsy(Get(p, "additional_info"))) /\ Trim(Get(p, "additional_info")) # ""

BreaksInvariant(v) ==
    v.kind = "array" /\ \E i \in DOMAIN v.items : ~ValidRecord(v.items[i])

\* C16: a POST /api/polygons whose payload holds a record that breaks the
\* record invariant is rejected before anything is persisted: its write
\* never starts and it is not answered 200.
C16_InvalidPayloadRejected ==
    \A c \in Clients :
        (/\ req[c].method = "POST"
         /\ req[c].coll = "polygons"
         /\ BreaksInvariant(req[c].body))
        => /\ req[c].pc # "write"
           /\ ~(req[c].pc = "done" /\ req[c].status = 200)

\* A POST with a record labelled "Other" and an empty additional_info was
\* answered 200, and the file holds that record.
C16_Witness ==
    \E c \in Clients :
        /\ req[c].method = "POST" /\ req[c].coll = "polygons"
        /\ req[c].pc = "done" /\ req[c].status = 200
        /\ req[c].body = JsonArray(<<UserPolygon(2, "Other", "")>>)
        /\ BreaksInvariant(req[c].body)
        /\ IsDocument(file["polygons"])
        /\ ValueOf(file["polygons"]) = req[c].body

\* C23: the stored document of a collection is always a JSON array: every
\* GET answered 200 returns a JSON array, whatever JSON values the POSTs
\* answered 200 before it held.
C23_StoredIsArray ==
    \A c \in Clients :
        (req[c].pc = "done" /\ req[c].method = "GET" /\ req[c].status = 200)
        => /\ req[c].ret.kind = "array"
           /\ JsonParse(req[c].out).val.kind = "array"

\* A POST /api/substations whose body is a JSON object was answered 200,
\* and the GET after it was answered 200 with that object.
C23_Witness ==
    \E c \in Clients :
        /\ req[c].pc = "done" /\ req[c].method = "GET" /\ req[c].status = 200
        /\ req[c].coll = "substations"
        /\ req[c].exp = Some(JsonObject([message |-> "x"]))
        /\ req[c].ret = JsonObject([message |-> "x"])
        /\ JsonParse(req[c].out).val = JsonObject([message |-> "x"])

---------------------------------------------------------------------------
(* Further claims about the browser client, checked under UiSpec.          *)

\* No handler is running and no request is in flight.
Quiet == \A c \in Clients : ui[c].pc = "idle" /\ req[c].pc = "idle"

\* The stored polygons collection holds record p.
Stored(p) ==
    /\ IsDocument(file["polygons"])
    /\ ValueOf(file["polygons"]).kind = "array"
    /\ \E i \in DOMAIN ValueOf(file["polygons"]).items :
          ValueOf(file["polygons"]).items[i] = p

\* C17: the from_osm record stored before any sequence of click, save and
\* delete actions (without I/O faults) is stored, with all fields unchanged,
\* when the sequence has ended.
C17_OsmRecordKept ==
    (Quiet /\ used.faults = 0) => Stored(OsmPolygon)

\* Two edit cycles without a fault have ended, every array that was posted
\* held the from_osm record unchanged, and the stored collection no longer
\* holds it: the file is no JSON text.
C17_Witness ==
    /\ Quiet /\ used.faults = 0
    /\ used.posts = 2
    /\ hist["polygons"].fin.some
    /\ \E i \in DOMAIN hist["polygons"].fin.val.items :
          hist["polygons"].fin.val.items[i] = OsmPolygon
    /\ \A c \in Clients : OsmPolygon \in getMapPolygons(ui[c])
    /\ ~Stored(OsmPolygon)

\* No id of the array starts with "temp-" and no two of its records share one.
DurableDistinctIds(items) ==
    /\ \A i \in DOMAIN items : ~StartsWithTemp(items[i].id)
    /\ \A i, j \in DOMAIN items : i # j => items[i].id # items[j].id

\* C19: after any sequence of draw, save, update and delete actions no
\* stored polygon has an id that starts with "temp-" and no two stored
\* polygons share an id; the same holds of every array a client posts.
C19_DurableIds ==
    /\ (IsDocument(file["polygons"]) /\ ValueOf(file["polygons"]).kind = "array")
       => DurableDistinctIds(ValueOf(file["polygons"]).items)
    /\ \A c \in Clients :
          (req[c].method = "POST" /\ req[c].body.kind = "array")
          => DurableDistinctIds(req[c].body.items)

\* Both clients have drawn a polygon and saved it: the stored collection
\* holds the two records it had and the two new ones under generated ids.
C19_Witness ==
    /\ Quiet
    /\ \A c \in Clients : ui[c].made = 1
    /\ IsDocument(file["polygons"])
    /\ Len(ValueOf(file["polygons"]).items) = 4
    /\ \A c \in Clients :
          \E i \in 3..4 : ValueOf(file["polygons"]).items[i].id = Uuidv4(c, 1)

---------------------------------------------------------------------------
(* Claims about the dialog's handlers, checked under DialogSpec.           *)

\* The id of the record the running handleSavePolygon has inserted or updated.
SavedId(c) == IF ui[c].isTemp THEN Uuidv4(c, ui[c].made) ELSE ui[c].dialogPolygon.id

\* The records of that id in the array handleSavePolygon posts.
SavedRecords(c) ==
    {ui[c].newPolygonList[i] : i \in
        {j \in DOMAIN ui[c].newPolygonList :
            Get(ui[c].newPolygonList[j], "id") = SavedId(c)}}

\* C18: the record handleSavePolygon writes, by insert or by update, is
\* user-authored, has a non-empty label, and has an additional_info that is
\* non-empty after trimming when its label is "Other"; also for a record
\* reopened with a label outside COMPONENT_OPTIONS or with an empty label.
C18_SavedRecordValid ==
    \A c \in Clients :
        ui[c].pc = "save_post"
        => /\ req[c].method = "POST"
           /\ req[c].body = JsonArray(ui[c].newPolygonList)
           /\ SavedRecords(c) # {}
           /\ \A p \in SavedRecords(c) :
                 /\ ~FromOsm(p)
                 /\ ValidRecord(p)
                 /\ p.label \in COMPONENT_OPTIONS

\* The record stored with the label "Breaker" was reopened and saved as it
\* came up in the dialog: it is posted with label "Other" and the old label
\* and information as additional_info.
C18_Witness ==
    \E c \in Clients :
        /\ ui[c].pc = "save_post" /\ ~ui[c].isTemp
        /\ ui[c].dialogPolygon = UserPolygon(1, "Breaker", "x")
        /\ SavedRecords(c) =
              {Spread(UserPolygon(1, "Breaker", "x"),
                      [label |-> "Other",
                       additional_info |-> "Breaker\n(Previously: x)",
                       annotation_by |-> AnnotatorName(c)])}

---------------------------------------------------------------------------
(* Claims about the substation lists, checked under QueueSpec.             *)

\* List L holds record s.
Lists(L, s) == \E i \in DOMAIN L : L[i] = s

\* C20: once both tabs have loaded their list from the same stored
\* collection, every stored substation is in exactly one of the list of
\* fetchSubstations and the list of fetchCompletedSubstations.
C20_QueuesPartition ==
    (ui["c1"].loaded /\ ui["c2"].loaded)
    => LET all == ValueOf(file["substations"]).items
       IN  /\ \A i \in DOMAIN all :
                 Lists(ui["c1"].substations, all[i]) # Lists(ui["c2"].substations, all[i])
           /\ Len(ui["c1"].substations) + Len(ui["c2"].substations) = Len(all)

\* Three stored substations, one completed, one not, one without the flag:
\* the Annotate tab lists the last two, the Complete tab the first.
C20_Witness ==
    /\ ui["c1"].loaded /\ ui["c2"].loaded
    /\ ValueOf(file["substations"]).items =
          <<StoredSubstation(1, "true", "t0"), StoredSubstation(2, "false", "t1"),
            StoredSubstation(3, "absent", "t0")>>
    /\ ui["c1"].substations =
          <<StoredSubstation(3, "absent", "t0"), StoredSubstation(2, "false", "t1")>>
    /\ ui["c2"].substations = <<StoredSubstation(1, "true", "t0")>>

---------------------------------------------------------------------------
(* Claims about what the handlers post, checked under UiSpec.              *)

\* The array items without the records of the given id, order kept.
RECURSIVE Without(_, _)
Without(items, id) ==
    IF items = <<>> THEN <<>>
    ELSE IF Head(items).id = id THEN Without(Tail(items), id)
    ELSE <<Head(items)>> \o Without(Tail(items), id)

HasId(items, id) == \E i \in DOMAIN items : items[i].id = id

\* The array the GET of client c was answered with (none when not 200).
ArrayRead(c) ==
    LET v == JsonParse(req[c].out).val
    IN  IF req[c].status = 200 /\ v.kind = "array"
        THEN [ok |-> TRUE, items |-> v.items] ELSE [ok |-> FALSE, items |-> <<>>]

\* C21: when handleDeletePolygon has read the collection, it posts exactly
\* the array it read without the records of the dialog polygon's id, the
\* other records unchanged and in the same order; when that id is not in
\* the array it read, it posts nothing and the stored collection is unchanged.
C21_DeleteFiltersOneId ==
    [][\A c \in Clients :
          LET got == ArrayRead(c)
              id  == ui[c].dialogPolygon.id
          IN  (ui[c].pc = "del_get" /\ ui'[c].pc # "del_get")
              => /\ file' = file
                 /\ IF got.ok /\ HasId(got.items, id)
                    THEN /\ ui'[c].pc = "del_post"
                         /\ req'[c].method = "POST"
                         /\ req'[c].coll = "polygons"
                         /\ req'[c].body = JsonArray(Without(got.items, id))
                    ELSE /\ ui'[c].pc = "idle"
                         /\ req'[c] = ReqIdle]_vars

\* One client's delete of u1 was persisted as the array without u1, and the
\* other client's delete of u1 then found no such id and posted nothing.
C21_Witness ==
    \E c \in Clients :
        /\ Quiet /\ used.faults = 0
        /\ ui[OtherClient(c)].toast = "Annotation Deleted"
        /\ ui[c].toast = "Delete Failed"
        /\ ui[c].dialogOpen
        /\ ui[c].dialogPolygon = UserPolygon(1, "Circuit breaker", Null)
        /\ ValueOf(file["polygons"]) = JsonArray(<<OsmPolygon>>)

\* The fields the update branch of handleSavePolygon overrides.
Overridden == {"label", "additional_info", "annotation_by"}

\* C26: the update branch of handleSavePolygon changes only label,
\* additional_info and annotation_by of the first record with the dialog
\* polygon's id in the array it read: the array posted has the same length,
\* every other record and every other field of that record is as read; with
\* the id absent (or the GET not answered with an array) nothing is posted,
\* and the step leaves the stored collections alone.
C26_UpdateChangesThreeFields ==
    [][\A c \in Clients :
          LET got == ArrayRead(c)
              id  == ui[c].dialogPolygon.id
          IN  (ui[c].pc = "save_get" /\ ui'[c].pc # "save_get" /\ ~ui[c].isTemp)
              => /\ file' = file
                 /\ IF got.ok /\ HasId(got.items, id)
                    THEN LET i    == CHOOSE n \in 1..Len(got.items) :
                                        /\ got.items[n].id = id
                                        /\ \A m \in 1..(n - 1) : got.items[m].id # id
                             body == req'[c].body
                         IN  /\ ui'[c].pc = "save_post"
                             /\ req'[c].method = "POST"
                             /\ req'[c].coll = "polygons"
                             /\ body.kind = "array"
                             /\ Len(body.items) = Len(got.items)
                             /\ \A n \in 1..Len(got.items) :
                                   n # i => body.items[n] = got.items[n]
                             /\ DOMAIN body.items[i] = DOMAIN got.items[i] \cup Overridden
                             /\ \A f \in DOMAIN got.items[i] \ Overridden :
                                   body.items[i][f] = got.items[i][f]
                    ELSE /\ ui'[c].pc = "idle"
                         /\ req'[c] = ReqIdle]_vars

\* One client's update of u1 was persisted: the record kept its place, id,
\* geometry and dates and carries the new label and the annotator's name;
\* the other client had deleted nothing, and the OSM record is as before.
C26_Witness ==
    \E c \in Clients :
        /\ Quiet /\ used.faults = 0
        /\ ~ui[c].dialogOpen
        /\ ValueOf(file["polygons"]) =
              JsonArray(<<OsmPolygon,
                          Spread(UserPolygon(1, "Circuit breaker", Null),
                                 [label |-> "Other",
                                  additional_info |-> "x",
                                  annotation_by |-> AnnotatorName(c)])>>)

\* The titles of handleSavePolygon's success notifications.
SuccessToasts == {"Annotation Saved", "Annotation Updated"}

\* C29: handleSavePolygon shows its success notification only once its POST
\* has been answered with success; when the POST is answered non-OK no
\* success notification is on the screen and the dialog is still open.
C29_SuccessToastAfterPost ==
    \A c \in Clients :
        /\ ui[c].toast \in SuccessToasts
           => /\ req[c].method = "POST" /\ req[c].pc = "done"
              /\ req[c].status = 200
        /\ (ui[c].pc = "save_post" /\ req[c].pc = "done" /\ req[c].status # 200)
           => /\ ui[c].toast \notin SuccessToasts
              /\ ui[c].dialogOpen

\* The POST of an insert was answered 500 after a failed write, and
\* "Annotation Saved" had been shown when the POST was sent; the dialog is
\* open and the local list is the one loaded.
C29_Witness ==
    \E c \in Clients :
        /\ ui[c].pc = "save_post" /\ ui[c].isTemp
        /\ req[c].method = "POST" /\ req[c].pc = "done" /\ req[c].status = 500
        /\ ui[c].toast = "Annotation Saved"
        /\ ui[c].dialogOpen
        /\ ui[c].componentPolygons = StoredPolygons
        /\ used.faults = 1

\* The id of the user-authored record stored at the start.
FirstUserId == UserPolygon(1, "Circuit breaker", Null).id

\* Client c has had its delete of that record persisted: the POST was
\* answered 200, the notification is shown and the record is gone from the
\* client's list.
DeletePersisted(c) ==
    /\ ui[c].pc = "idle" /\ ui[c].toast = "Annotation Deleted"
    /\ ~HasId(ui[c].componentPolygons, FirstUserId)

\* C30: once a delete of a polygon id has been persisted, no record with
\* that id is in the stored polygons collection, whatever the other client
\* does.
C30_DeletedStaysDeleted ==
    \A c \in Clients :
        /\ (ui[c].pc = "del_post" /\ req[c].pc = "done" /\ req[c].status = 200
               /\ IsDocument(file["polygons"]))
           => ~HasId(ValueOf(file["polygons"]).items, ui[c].dialogPolygon.id)
        /\ (DeletePersisted(c) /\ IsDocument(file["polygons"]))
           => ~HasId(ValueOf(file["polygons"]).items, FirstUserId)

\* One client's delete of u1 was persisted; the other client had read the
\* collection for an update of u1 before that and posted its array after
\* it: the stored collection holds u1 again, with the new label.
C30_Witness ==
    \E c \in Clients :
        /\ Quiet /\ used.faults = 0
        /\ DeletePersisted(c)
        /\ ValueOf(file["polygons"]) =
              JsonArray(<<OsmPolygon,
                          Spread(UserPolygon(1, "Circuit breaker", Null),
                                 [label |-> "Other",
                                  additional_info |-> "x",
                                  annotation_by |-> AnnotatorName(OtherClient(c))])>>)

---------------------------------------------------------------------------
(* Further claims about the tile route, checked under TileSpec.            *)

\* C22: for every request of four segments the path the route reads lies
\* inside the tile base directory.
C22_ReadStaysInTileDir ==
    (tile.pc = "done" /\ Len(tile.segs) = 4)
    => IsPrefix(TILE_BASE_PATH, tile.read)

\* The dataset segment "..": the route called fs.readFileSync on
\* public/3/2/0.png, next to the tile directory and not inside it.
C22_Witness ==
    /\ tile.pc = "done"
    /\ tile.segs = <<DotDot, Str(3), Str(2), Str(7) \o DotPng>>
    /\ tile.read = Cwd \o << <<"p", "u", "b">>, Str(3), Str(2), Str(0) \o DotPng >>
    /\ ~IsPrefix(TILE_BASE_PATH, tile.read)
    /\ tile.code = "ENOENT"

---------------------------------------------------------------------------
(* Claims about the shared resources, checked under SharedSpec.            *)

\* C24: the shared resources are independent.  No step changes the tile
\* directory tree, and a step changes the file of a collection only when it
\* is a step of a POST to that collection; so a write to one collection
\* leaves the other unchanged, and GET and tile requests leave both unchanged.
C24_ResourcesIndependent ==
    [][/\ tileFs' = tileFs
       /\ \A k \in Colls :
             file'[k] # file[k]
             => \E c \in Clients :
                   /\ req[c].method = "POST" /\ req[c].coll = k
                   /\ req[c].pc \in {"open", "write"}
                   /\ req'[c] # req[c]]_vars

\* A POST has replaced the substations collection and a tile has been
\* served: the polygons collection and the tile tree are as they were.
C24_Witness ==
    /\ tile.pc = "done" /\ tile.status = 200
    /\ tileFs = TileTree
    /\ \E c \in Clients :
          /\ req[c].pc = "done" /\ req[c].method = "POST" /\ req[c].status = 200
          /\ req[c].coll = "substations"
    /\ ValueOf(file["substations"]) = JsonArray(<<Substation(1, TRUE)>>)
    /\ file["polygons"] =
          [exists |-> TRUE, bytes |-> JsonStringify(JsonArray(<<OsmPolygon>>))]

---------------------------------------------------------------------------
(* Claims about cycles that run one after another, checked under           *)
(* DialogSpec: one client, so that no two cycles interleave.               *)

\* C25: no update is lost when the cycles run one after another and every
\* POST succeeds.  Each cycle reads the collection as stored, and when its
\* POST is answered 200 the stored collection is the array it posted; after
\* k inserts and no other cycle the collection is the array stored at the
\* start followed by the k new records in insertion order.
C25_NoLostUpdate ==
    LET c     == DialogUser
        doc   == file["polygons"]
        items == ValueOf(doc).items
        k     == ui[c].made
        n     == Len(items)
    IN  /\ (ui[c].pc \in {"save_get", "del_get"} /\ req[c].pc = "done"
               /\ req[c].status = 200)
           => /\ IsDocument(doc)
              /\ ArrayRead(c).items = items
        /\ (ui[c].pc \in {"save_post", "del_post"} /\ req[c].pc = "done"
               /\ req[c].status = 200)
           => /\ IsDocument(doc)
              /\ ValueOf(doc) = JsonArray(ui[c].newPolygonList)
        /\ (Quiet /\ used.faults = 0 /\ k = used.posts)
           => /\ IsDocument(doc)
              /\ n >= k
              /\ SubSeq(items, 1, n - k) \in {StoredPolygons, LegacyPolygons}
              /\ \A j \in 1..k :
                    /\ items[n - k + j].id = Uuidv4(c, j)
                    /\ ~FromOsm(items[n - k + j])

\* Two polygons were drawn and saved one after the other: the collection
\* holds the two records stored at the start and then the two new ones.
C25_Witness ==
    /\ Quiet /\ used.faults = 0
    /\ ui[DialogUser].made = 2 /\ used.posts = 2
    /\ Len(ValueOf(file["polygons"]).items) = 4
    /\ SubSeq(ValueOf(file["polygons"]).items, 1, 2) = StoredPolygons
    /\ ValueOf(file["polygons"]).items[3].id = Uuidv4(DialogUser, 1)
    /\ ValueOf(file["polygons"]).items[4].id = Uuidv4(DialogUser, 2)

---------------------------------------------------------------------------
(* Claims about completing and reopening a substation, checked under       *)
(* LifeSpec.                                                               *)

\* finalSubstationType of handleCompleteSubstation, from the tab's fields.
ChosenType(u) ==
    IF u.substationType = "Other" THEN Trim(u.substationOtherText)
    ELSE u.substationType

\* The posted array differs from the array read only in the records of id
\* `id`, and in these only in the fields of `over`, which hold its values.
OnlySelectedChanged(read, posted, id, over) ==
    /\ Len(posted) = Len(read)
    /\ \A n \in 1..Len(read) :
          IF read[n].id = id
          THEN /\ DOMAIN posted[n] = DOMAIN read[n] \cup DOMAIN over
               /\ \A f \in DOMAIN over : posted[n][f] = over[f]
               /\ \A f \in DOMAIN read[n] \ DOMAIN over : posted[n][f] = read[n][f]
          ELSE posted[n] = read[n]

\* C27: handleCompleteSubstation sends its POST only with a substation type
\* that is not empty and not "Other" with blank custom text, and only when
\* the array it read holds the selected id; the array posted differs from
\* the array read only in the selected record, which gets completed = true
\* and substation_type = the chosen type (the trimmed custom text for
\* "Other").  Otherwise nothing is sent and no file changes in the step.
C27_CompleteChangesSelected ==
    [][LET c   == "c1"
           got == ArrayRead(c)
           id  == ui[c].selectedSubstation
       IN  /\ (req'[c].method = "POST" /\ req[c].method # "POST")
              => /\ ui[c].pc = "complete_get"
                 /\ ChosenType(ui[c]) # ""
                 /\ id # NullId
           /\ (ui[c].pc = "idle" /\ ui'[c].pc = "complete_get")
              => /\ ui[c].substationType # ""
                 /\ ChosenType(ui[c]) # ""
           /\ (ui[c].pc = "complete_get" /\ ui'[c].pc # "complete_get")
              => /\ file' = file
                 /\ IF got.ok /\ HasId(got.items, id)
                    THEN /\ ui'[c].pc = "complete_post"
                         /\ req'[c].method = "POST"
                         /\ req'[c].coll = "substations"
                         /\ req'[c].body.kind = "array"
                         /\ OnlySelectedChanged(got.items, req'[c].body.items, id,
                               [completed |-> TRUE,
                                substation_type |-> ChosenType(ui[c])])
                    ELSE /\ ui'[c].pc = "idle"
                         /\ req'[c] = ReqIdle]_vars

\* The first substation, stored without a completed member, was completed
\* with the custom type " Rail ": it is stored with completed = true and
\* the type "Rail", the second record is as it was, and the refreshed
\* Annotate list holds the second substation only.
C27_Witness ==
    /\ ui["c1"].pc = "idle" /\ ui["c1"].toast = "Substation Completed!"
    /\ ui["c1"].substations = <<StoredSubstation(2, "false", "t1")>>
    /\ ValueOf(file["substations"]) =
          JsonArray(<<[Substation(1, TRUE) EXCEPT !.substation_type = "Rail"],
                      StoredSubstation(2, "false", "t1")>>)
    /\ used.posts = 1 /\ used.faults = 0

\* A completion that found the selected id missing from the array it read
\* (a caller of the API had replaced the collection) and sent nothing.
C27_NotFound ==
    /\ ui["c1"].pc = "idle" /\ ui["c1"].toast = "Completion Failed"
    /\ ui["c1"].selectedSubstation = SubId(2)
    /\ ValueOf(file["substations"]) = JsonArray(<<Substation(1, TRUE)>>)
    /\ used.faults = 0

\* C28: handleReopenSubstation posts the array it read with only the
\* completed flag of the selected record changed, to false; every other
\* field of that record (substation_type included) and every other record
\* is as read, so that the record is in the Annotate queue computed from the
\* posted array; with the selected id missing from the array read, nothing
\* is sent and no file changes in the step.
C28_ReopenChangesFlag ==
    [][LET c   == "c2"
           got == ArrayRead(c)
           id  == ui[c].selectedSubstation
       IN  (ui[c].pc = "reopen_get" /\ ui'[c].pc # "reopen_get")
           => /\ file' = file
              /\ IF got.ok /\ HasId(got.items, id)
                 THEN /\ ui'[c].pc = "reopen_post"
                      /\ req'[c].method = "POST"
                      /\ req'[c].coll = "substations"
                      /\ req'[c].body.kind = "array"
                      /\ OnlySelectedChanged(got.items, req'[c].body.items, id,
                            [completed |-> FALSE])
                      /\ HasId(fetchSubstations(req'[c].body.items), id)
                 ELSE /\ ui'[c].pc = "idle"
                      /\ req'[c] = ReqIdle]_vars

\* The round trip: the first substation was completed with the type "Rail"
\* in the Annotate tab and then reopened in the Complete tab, with no other
\* write in between.  The collection is as after the completion but for the
\* flag, and the Annotate queue computed from it holds the record again.
C28_Witness ==
    /\ ui["c1"].toast = "Substation Completed!"
    /\ ui["c2"].pc = "idle" /\ ui["c2"].toast = "Substation Reopened!"
    /\ used.posts = 2 /\ used.faults = 0
    /\ ValueOf(file["substations"]) =
          JsonArray(<<[Substation(1, FALSE) EXCEPT !.substation_type = "Rail"],
                      StoredSubstation(2, "false", "t1")>>)
    /\ HasId(fetchSubstations(ValueOf(file["substations"]).items), SubId(1))

=============================================================================
